---- MODULE Spec2Model ----
(***************************************************************************)
(* Aegis caching reverse proxy: the request handler (internal/proxy), the  *)
(* response cache (internal/cache) and the header/time helpers             *)
(* (internal/utils), as a state machine.                                   *)
(*                                                                         *)
(* Time is an integer clock of ticks; the zero time.Time is 0 and the      *)
(* clock starts at 1.  Header maps are functions from header names to      *)
(* sequences of values, texts are strings.                                 *)
(*                                                                         *)
(* Spec serves requests one after the other, with every method, status     *)
(* and content of the model; SpecConcurrent has two requests in flight at  *)
(* once, all GET.  In both, Cache.Get and Cache.Set are one step each:     *)
(* each holds the cache's lock from its first statement to its return.     *)
(*                                                                         *)
(* SpecCache and SpecCacheConcurrent are the cache by itself, its methods  *)
(* called by one goroutine or by two, each method a sequence of steps      *)
(* under the RWMutex.  SpecLocked is the proxy with two requests in flight *)
(* whose handlers go through those steps, and SpecLockedNoTTL the same     *)
(* without a TTL, on two keys.  SpecCacheScheduled is the cache called by  *)
(* two goroutines that are scheduled fairly.                               *)
(*                                                                         *)
(* SpecLive is one handler under weak fairness of its steps: a handler     *)
(* goroutine that has started keeps running.  SpecHeaders serves requests  *)
(* that carry hop-by-hop and end-to-end headers, under a TTL of zero.      *)
(* SpecCacheKey and SpecUtils call cacheKey, SingleSlashJoin and           *)
(* RequestContextWithTimeout on inputs of the model; fn holds the latest   *)
(* call with its arguments and its result.                                 *)
(***************************************************************************)
EXTENDS Integers, Sequences, FiniteSets, TLC

VARIABLES now, ttl, data, pc, req, out, err, up, cause, entry, got, resp, calls,
          mu, call, latest, fn

\* the proxy's part of the state
proxyVars == <<ttl, pc, req, out, err, up, cause, entry, got, resp, calls>>

\* the lock and the calls of the cache's methods under way
lockVars == <<mu, call, latest>>

vars == <<now, ttl, data, pc, req, out, err, up, cause, entry, got, resp, calls,
          mu, call, latest, fn>>

(***************************************************************************)
(* Bounds of the model.                                                    *)
(***************************************************************************)
\* the clock runs from 1 to MaxTime
MaxTime == 3
\* the positive TTL a proxy may be configured with, in ticks
MaxTTL == 1
\* clock ticks per second (time.RFC3339 prints whole seconds)
TicksPerSecond == 2

\* the handler goroutines that serve requests
Handlers == {1, 2}

(***************************************************************************)
(* http.Header                                                             *)
(***************************************************************************)
LowerAlpha == "abcdefghijklmnopqrstuvwxyz"
UpperAlpha == "ABCDEFGHIJKLMNOPQRSTUVWXYZ"

CharAt(s, i) == SubSeq(s, i, i)

ToUpper(c) ==
    IF \E i \in 1..Len(LowerAlpha) : CharAt(LowerAlpha, i) = c
    THEN CharAt(UpperAlpha, CHOOSE i \in 1..Len(LowerAlpha) : CharAt(LowerAlpha, i) = c)
    ELSE c

ToLower(c) ==
    IF \E i \in 1..Len(UpperAlpha) : CharAt(UpperAlpha, i) = c
    THEN CharAt(LowerAlpha, CHOOSE i \in 1..Len(UpperAlpha) : CharAt(UpperAlpha, i) = c)
    ELSE c

\* http.CanonicalHeaderKey: the first letter and every letter after a hyphen
\* in upper case, every other letter in lower case
RECURSIVE CanonFrom(_, _, _)
CanonFrom(s, i, upper) ==
    IF i > Len(s) THEN ""
    ELSE LET c == CharAt(s, i)
         IN (IF upper THEN ToUpper(c) ELSE ToLower(c)) \o CanonFrom(s, i + 1, c = "-")

\* the header names that occur, as clients, the upstream and the proxy spell them
HeaderNames ==
    {"Content-Type", "Connection", "connection", "Authorization", "authorization",
     "X-Cache", "X-Served-By", "X-Backup-Saved-At", "X-Content-Type-Options",
     "Transfer-Encoding", "TE", "X-Custom-Header"}

\* CanonFrom tabulated for these names
CanonicalNames == [n \in HeaderNames |-> CanonFrom(n, 1, TRUE)] @@ [n \in {} |-> ""]

CanonicalHeaderKey(s) == IF s \in HeaderNames THEN CanonicalNames[s] ELSE CanonFrom(s, 1, TRUE)

EmptyHeader == [n \in {} |-> <<>>]

\* http.Header.Get: the first value under the canonical name, "" when absent
HeaderGet(h, name) ==
    LET k == CanonicalHeaderKey(name)
    IN IF k \in DOMAIN h /\ Len(h[k]) > 0 THEN h[k][1] ELSE ""

\* http.Header.Set: the name's values become the single value v
HeaderSet(h, name, v) ==
    LET k == CanonicalHeaderKey(name)
    IN [n \in DOMAIN h \cup {k} |-> IF n = k THEN <<v>> ELSE h[n]]

\* IsHopByHopHeader without http.CanonicalHeaderKey: the name as it is spelled
IsHopByHopHeaderExact(key) ==
    key \in
        {"Connection", "Proxy-Connection", "Keep-Alive", "Proxy-Authenticate",
         "Proxy-Authorization", "Te", "Trailer", "Transfer-Encoding", "Upgrade"}

\* IsHopByHopHeader
IsHopByHopHeader(key) ==
    CanonicalHeaderKey(key) \in
        {"Connection", "Proxy-Connection", "Keep-Alive", "Proxy-Authenticate",
         "Proxy-Authorization", "Te", "Trailer", "Transfer-Encoding", "Upgrade"}

\* CopyHeadersForUpstream: dst.Add(k, v) for every value of every header of
\* src that is not hop-by-hop
CopyHeadersForUpstream(dst, src) ==
    LET keep == {k \in DOMAIN src : ~IsHopByHopHeader(k)}
        from(n) == {k \in keep : CanonicalHeaderKey(k) = n}
        added(n) == IF from(n) = {} THEN <<>> ELSE src[CHOOSE k \in from(n) : TRUE]
        old(n) == IF n \in DOMAIN dst THEN dst[n] ELSE <<>>
    IN [n \in DOMAIN dst \cup {CanonicalHeaderKey(k) : k \in keep} |-> old(n) \o added(n)]

\* CopyHeadersForClient: dst.Add(k, v) for every value of every header of src
\* that is not hop-by-hop.  Add files the value under the canonical name; the
\* header maps net/http parses have canonical names, one per header.
CopyHeadersForClient(dst, src) ==
    LET keep == {k \in DOMAIN src : ~IsHopByHopHeader(k)}
        from(n) == {k \in keep : CanonicalHeaderKey(k) = n}
        added(n) == IF from(n) = {} THEN <<>> ELSE src[CHOOSE k \in from(n) : TRUE]
        old(n) == IF n \in DOMAIN dst THEN dst[n] ELSE <<>>
    IN [n \in DOMAIN dst \cup {CanonicalHeaderKey(k) : k \in keep} |-> old(n) \o added(n)]

\* CloneHeaderSanitized
CloneHeaderSanitized(h) == CopyHeadersForClient(EmptyHeader, h)

(***************************************************************************)
(* internal/cache: the Store                                               *)
(***************************************************************************)
\* the zero cache.Response, returned by a failed lookup
ZeroResponse ==
    [status |-> 0, header |-> EmptyHeader, body |-> "", savedAt |-> 0, expireAt |-> 0]

\* the empty map of cache.New
EmptyData == [k \in {} |-> ZeroResponse]

\* Cache.Get that, for a key with no entry, returns an entry of another key
CacheGetAny(d, key, t) ==
    IF DOMAIN d = {}
    THEN [v |-> ZeroResponse, ok |-> FALSE]
    ELSE LET k == IF key \in DOMAIN d THEN key ELSE CHOOSE j \in DOMAIN d : TRUE
         IN IF d[k].expireAt # 0 /\ t > d[k].expireAt
            THEN [v |-> ZeroResponse, ok |-> FALSE]
            ELSE [v |-> d[k], ok |-> TRUE]

\* Cache.Get at clock t: the value and ok
CacheGet(d, key, t) ==
    IF key \notin DOMAIN d
    THEN [v |-> ZeroResponse, ok |-> FALSE]
    ELSE IF d[key].expireAt # 0 /\ t > d[key].expireAt
         THEN [v |-> ZeroResponse, ok |-> FALSE]
         ELSE [v |-> d[key], ok |-> TRUE]

\* Cache.Set that keeps an entry already there
CacheSetIfAbsent(d, key, value) ==
    [k \in DOMAIN d \cup {key} |-> IF k \in DOMAIN d THEN d[k] ELSE value]

\* Cache.Set that leaves the ExpireAt of an entry already there
CacheSetKeepsExpiry(d, key, value) ==
    [k \in DOMAIN d \cup {key} |->
        IF k # key THEN d[k]
        ELSE IF key \in DOMAIN d
             THEN [value EXCEPT !.expireAt = d[key].expireAt]
             ELSE value]

\* Cache.Set: c.data[key] = value
CacheSet(d, key, value) ==
    [k \in DOMAIN d \cup {key} |-> IF k = key THEN value ELSE d[k]]

\* Cache.Size counting only the entries that never expire
CacheSizeLasting(d) == Cardinality({k \in DOMAIN d : d[k].expireAt = 0})

\* Cache.Size
CacheSize(d) == Cardinality(DOMAIN d)

\* MemoryUsage, lines 78-80: the lengths of a header's values
RECURSIVE ValuesBytes(_)
ValuesBytes(values) ==
    IF values = <<>> THEN 0 ELSE Len(Head(values)) + ValuesBytes(Tail(values))

\* MemoryUsage, lines 76-81: the length of every header name and value
RECURSIVE HeaderBytes(_, _)
HeaderBytes(h, names) ==
    IF names = {} THEN 0
    ELSE LET key == CHOOSE n \in names : TRUE
         IN Len(key) + ValuesBytes(h[key]) + HeaderBytes(h, names \ {key})

\* MemoryUsage without line 72, the key
EntryBytesNoKey(k, v) == Len(v.body) + HeaderBytes(v.header, DOMAIN v.header)

\* MemoryUsage, lines 71-81: what one pass of the loop adds to total
EntryBytes(k, v) == Len(k) + Len(v.body) + HeaderBytes(v.header, DOMAIN v.header)

\* sync.RWMutex: the goroutine holding the write lock (0 for none) and the
\* goroutines holding read locks
Unlocked == [writer |-> 0, readers |-> {}]

\* RLock that does not wait for a writer
CanRLockAlways(m) == TRUE

\* RLock returns only while no writer holds the lock
CanRLock(m) == m.writer = 0

\* Lock taken as RLock is: it waits for a writer and not for the readers
CanLockAsReader(m) == m.writer = 0

\* Lock that waits for nobody
CanLockAlways(m) == TRUE

\* Lock returns only while nobody holds the lock
CanLock(m) == m.writer = 0 /\ m.readers = {}

\* a goroutine's call of a method of the cache: the method, how far it has
\* come (idle, lock: before the lock, held: the lock taken, store: in the
\* assignment of Set, scan: in the loop of MemoryUsage, unlock: the result
\* computed and the deferred unlock to come, returned), its arguments key and
\* value, and its results: v and ok of Get, n of Size, total of MemoryUsage
\* with todo, the entries the loop has yet to visit
NoCall ==
    [op |-> "", at |-> "idle", key |-> "", value |-> ZeroResponse,
     v |-> ZeroResponse, ok |-> FALSE, n |-> 0, total |-> 0, todo |-> {}]

(***************************************************************************)
(* internal/utils: path helpers                                            *)
(***************************************************************************)
\* character c is one of those of cutset
InCutset(c, cutset) == \E i \in 1..Len(cutset) : CharAt(cutset, i) = c

\* strings.TrimRight: s without the characters of cutset at its end
RECURSIVE TrimRight(_, _)
TrimRight(s, cutset) ==
    IF Len(s) > 0 /\ InCutset(CharAt(s, Len(s)), cutset)
    THEN TrimRight(SubSeq(s, 1, Len(s) - 1), cutset)
    ELSE s

\* strings.TrimLeft: s without the characters of cutset at its start
RECURSIVE TrimLeft(_, _)
TrimLeft(s, cutset) ==
    IF Len(s) > 0 /\ InCutset(CharAt(s, 1), cutset)
    THEN TrimLeft(SubSeq(s, 2, Len(s)), cutset)
    ELSE s

\* EnsureLeadingSlash putting a slash before whatever it is given
EnsureLeadingSlashAlways(s) == "/" \o s

\* EnsureLeadingSlash
EnsureLeadingSlash(s) ==
    IF s = "" THEN "/"
    ELSE IF CharAt(s, 1) # "/" THEN "/" \o s
    ELSE s

\* SingleSlashJoin
SingleSlashJoin(a, b) ==
    IF a = "" \/ a = "/" THEN EnsureLeadingSlash(b)
    ELSE IF b = "" \/ b = "/" THEN EnsureLeadingSlash(a)
    ELSE TrimRight(a, "/") \o "/" \o TrimLeft(b, "/")

(***************************************************************************)
(* internal/utils: time helpers                                            *)
(***************************************************************************)
\* a context.Context as Deadline() shows it: the deadline, and ok for whether
\* there is one
NoDeadline == [deadline |-> 0, ok |-> FALSE]

DeadlineAt(t) == [deadline |-> t, ok |-> TRUE]

\* context.WithDeadline that takes d whatever the parent's deadline is
WithDeadlineAnyway(parent, d) == DeadlineAt(d)

\* context.WithDeadline(parent, d): the parent's deadline stays when it is
\* before d
WithDeadline(parent, d) ==
    IF parent.ok /\ parent.deadline < d THEN parent ELSE DeadlineAt(d)

\* context.WithTimeout(parent, d) with time.Now() = t
WithTimeout(parent, d, t) == WithDeadline(parent, t + d)

\* RequestContextWithTimeout: time.Until reads the clock at t1, and
\* context.WithTimeout reads it again at t2
RequestContextWithTimeout(parent, d, t1, t2) ==
    IF parent.ok /\ parent.deadline - t1 < d
    THEN parent
    ELSE WithTimeout(parent, d, t2)

\* ZeroOrExpiry with < for <=: a TTL of zero expires the entry at once
ZeroOrExpiryBelowZero(t, d) == IF d < 0 THEN 0 ELSE t + d

\* ZeroOrExpiry with time.Now() = t
ZeroOrExpiry(t, d) == IF d <= 0 THEN 0 ELSE t + d

\* Time.Format(time.RFC3339): the instant in whole seconds
FormatRFC3339(t) == ToString(t \div TicksPerSecond) \o "Z"

(***************************************************************************)
(* Requests, upstream replies, responses                                   *)
(***************************************************************************)
Methods == {"GET", "HEAD", "POST"}
Paths == {"/a"}
Queries == {""}
RequestHeaders == {EmptyHeader}

\* the inbound requests
Requests ==
    [method : Methods, path : Paths, rawQuery : Queries, header : RequestHeaders]

NoRequest == [method |-> "", path |-> "", rawQuery |-> "", header |-> EmptyHeader]

\* cache.keyHeaders of the configuration
KeyHeaders == <<"Authorization">>

\* the path of the configured upstream URL
UpstreamPath == "/api/"

\* the configured cache TTLs: time.ParseDuration takes a negative one too
TTLs == {-1, 0, MaxTTL}

\* what the upstream can answer: a status, and one of two contents
Statuses == {101, 200, 299, 404, 500}
Contents ==
    { [header |-> [n \in {"Content-Type", "Connection"} |->
                      IF n = "Connection" THEN <<"close">> ELSE <<"text/plain">>],
       body |-> "success"],
      [header |-> [n \in {"X-Cache", "X-Served-By", "X-Backup-Saved-At"} |-> <<"origin">>],
       body |-> "other"] }

\* a reply to HEAD has no body
UpstreamReplies(method) ==
    { [status |-> s, header |-> c.header, body |-> IF method = "HEAD" THEN "" ELSE c.body] :
        s \in Statuses, c \in Contents }

NoReply == [status |-> 0, header |-> EmptyHeader, body |-> ""]

\* errors of http.NewRequestWithContext, of Client.Do (a timeout included) and
\* of io.ReadAll
BuildErrors == {"net/http: invalid method"}
TransportErrors == {"connection refused", "context deadline exceeded"}
ReadErrors == {"unexpected EOF"}

NoResponse == [written |-> FALSE, status |-> 0, header |-> EmptyHeader, body |-> ""]

NoCalls == [do |-> 0, get |-> 0, set |-> 0]

NotGot == [v |-> ZeroResponse, ok |-> FALSE]

\* no function called yet
NoFn == [f |-> "", args |-> <<>>, result |-> "", at |-> 0]

\* http.Error: the plain-text headers, the status code and the message line
HttpError(w, msg, code) ==
    [written |-> TRUE,
     status |-> code,
     header |-> HeaderSet(HeaderSet(w.header, "Content-Type", "text/plain; charset=utf-8"),
                          "X-Content-Type-Options", "nosniff"),
     body |-> msg \o "\n"]

\* ServeHTTP line 59
Cacheable(r) == r.method = "GET" \/ r.method = "HEAD"

\* Proxy.cacheKey with the header's canonical name in the segment
RECURSIVE KeySegmentsCanonical(_, _, _)
KeySegmentsCanonical(keyHeaders, r, i) ==
    IF i > Len(keyHeaders) THEN ""
    ELSE LET headerName == keyHeaders[i]
             headerValue == HeaderGet(r.header, headerName)
         IN (IF headerValue # ""
             THEN "|" \o CanonicalHeaderKey(headerName) \o ":" \o headerValue
             ELSE "")
            \o KeySegmentsCanonical(keyHeaders, r, i + 1)

\* Proxy.cacheKey, lines 173-180: the segments of the configured headers
\* keyHeaders, from the i-th on
RECURSIVE KeySegments(_, _, _)
KeySegments(keyHeaders, r, i) ==
    IF i > Len(keyHeaders) THEN ""
    ELSE LET headerName == keyHeaders[i]
             headerValue == HeaderGet(r.header, headerName)
         IN (IF headerValue # "" THEN "|" \o headerName \o ":" \o headerValue ELSE "")
            \o KeySegments(keyHeaders, r, i + 1)

\* Proxy.cacheKey of a proxy whose keyHeaders are given
CacheKeyOf(keyHeaders, r) ==
    r.method \o " " \o r.path \o "?" \o r.rawQuery \o KeySegments(keyHeaders, r, 1)

\* Proxy.cacheKey of the proxy of this model
CacheKey(r) == CacheKeyOf(KeyHeaders, r)

\* lines 66-68: the path of the upstream URL
TargetPath(r) == SingleSlashJoin(UpstreamPath, r.path)

\* lines 66-92: the request to the upstream, its headers those of the inbound
\* request that are not hop-by-hop
Outbound(r) ==
    [method |-> r.method,
     path |-> TargetPath(r),
     rawQuery |-> r.rawQuery,
     header |-> CopyHeadersForUpstream(EmptyHeader, r.header)]

BadGateway == 502

(***************************************************************************)
(* The state                                                               *)
(*   now    the clock                                                      *)
(*   ttl    Proxy.ttl                                                      *)
(*   data   Cache.data                                                     *)
(*   pc     where each handler stands in ServeHTTP                         *)
(*   req    the request a handler serves                                   *)
(*   out    the outbound request to the upstream                           *)
(*   err    the handler's err, "" for nil                                  *)
(*   up     resp and respBody, the upstream's reply                        *)
(*   cause  the error handed to tryServeFromCache                          *)
(*   entry  the cache.Response being built                                 *)
(*   got    cached, ok: what Cache.Get returned to tryServeFromCache       *)
(*   resp   the ResponseWriter: headers set so far, and status and body    *)
(*          once written                                                   *)
(*   calls  how often the handler has called Client.Do, Cache.Get and      *)
(*          Cache.Set for this request                                     *)
(*   fn     the latest call of a function that reads no state but the      *)
(*          clock: the function, its arguments, its result and the clock   *)
(*          at the call                                                    *)
(***************************************************************************)
Init ==
    /\ now = 1
    /\ ttl \in TTLs
    /\ data = EmptyData
    /\ pc = [p \in Handlers |-> "idle"]
    /\ req = [p \in Handlers |-> NoRequest]
    /\ out = [p \in Handlers |-> NoRequest]
    /\ err = [p \in Handlers |-> ""]
    /\ up = [p \in Handlers |-> NoReply]
    /\ cause = [p \in Handlers |-> ""]
    /\ entry = [p \in Handlers |-> ZeroResponse]
    /\ got = [p \in Handlers |-> NotGot]
    /\ resp = [p \in Handlers |-> NoResponse]
    /\ calls = [p \in Handlers |-> NoCalls]
    /\ mu = Unlocked
    /\ call = [p \in Handlers |-> NoCall]
    /\ latest = EmptyData
    /\ fn = NoFn

\* time passes
Tick ==
    /\ now < MaxTime
    /\ now' = now + 1
    /\ UNCHANGED <<ttl, data, pc, req, out, err, up, cause, entry, got, resp, calls>>
    /\ UNCHANGED lockVars
    /\ UNCHANGED fn

\* a failure after which the handler sends the request again
FailedRetry(p, r, e, why) ==
    /\ err' = [err EXCEPT ![p] = e]
    /\ pc' = [pc EXCEPT ![p] = "send"]
    /\ cause' = [cause EXCEPT ![p] = why]
    /\ resp' = [resp EXCEPT ![p] = NoResponse]

\* the branch every error of the upstream attempt takes: a cacheable request
\* goes to tryServeFromCache with the cause, any other gets http.Error with
\* the bare error
Failed(p, r, e, why) ==
    /\ err' = [err EXCEPT ![p] = e]
    /\ IF Cacheable(r)
       THEN /\ pc' = [pc EXCEPT ![p] = "fallback"]
            /\ cause' = [cause EXCEPT ![p] = why]
            /\ resp' = [resp EXCEPT ![p] = NoResponse]
       ELSE /\ pc' = [pc EXCEPT ![p] = "done"]
            /\ cause' = [cause EXCEPT ![p] = ""]
            /\ resp' = [resp EXCEPT ![p] =
                           HttpError(NoResponse, "Bad Gateway: " \o e, BadGateway)]

\* ServeHTTP up to the outbound request: a handler takes a request and builds
\* the upstream request, which http.NewRequestWithContext may refuse
Start(p, r, e) ==
    /\ pc[p] \in {"idle", "done"}
    /\ req' = [req EXCEPT ![p] = r]
    /\ out' = [out EXCEPT ![p] = IF e # "" THEN NoRequest ELSE Outbound(r)]
    /\ up' = [up EXCEPT ![p] = NoReply]
    /\ entry' = [entry EXCEPT ![p] = ZeroResponse]
    /\ got' = [got EXCEPT ![p] = NotGot]
    /\ calls' = [calls EXCEPT ![p] = NoCalls]
    /\ IF e # ""
       THEN Failed(p, r, e, "build request: " \o e)
       ELSE /\ pc' = [pc EXCEPT ![p] = "send"]
            /\ err' = [err EXCEPT ![p] = ""]
            /\ cause' = [cause EXCEPT ![p] = ""]
            /\ resp' = [resp EXCEPT ![p] = NoResponse]
    /\ UNCHANGED <<now, ttl, data>>
    /\ UNCHANGED lockVars
    /\ UNCHANGED fn

\* p.client.Do fails: no connection, or the timeout fires
DoError(p, e) ==
    /\ pc[p] = "send"
    /\ calls' = [calls EXCEPT ![p].do = @ + 1]
    /\ Failed(p, req[p], e, e)
    /\ UNCHANGED <<now, ttl, data, req, out, up, entry, got>>
    /\ UNCHANGED lockVars
    /\ UNCHANGED fn

\* p.client.Do returns the upstream's reply, its body still to be read
DoReply(p, reply) ==
    /\ pc[p] = "send"
    /\ calls' = [calls EXCEPT ![p].do = @ + 1]
    /\ up' = [up EXCEPT ![p] = reply]
    /\ pc' = [pc EXCEPT ![p] = "read"]
    /\ UNCHANGED <<now, ttl, data, req, out, err, cause, entry, got, resp>>
    /\ UNCHANGED lockVars
    /\ UNCHANGED fn

\* io.ReadAll(resp.Body) fails and the handler goes on with what it has read
ReadErrorIgnored(p, e) ==
    /\ pc[p] = "read"
    /\ err' = [err EXCEPT ![p] = e]
    /\ pc' = [pc EXCEPT ![p] = "forward"]
    /\ UNCHANGED <<now, ttl, data, req, out, up, cause, entry, got, resp, calls>>
    /\ UNCHANGED lockVars
    /\ UNCHANGED fn

\* io.ReadAll(resp.Body) fails
ReadError(p, e) ==
    /\ pc[p] = "read"
    /\ Failed(p, req[p], e, "read upstream body: " \o e)
    /\ UNCHANGED <<now, ttl, data, req, out, up, entry, got, calls>>
    /\ UNCHANGED lockVars
    /\ UNCHANGED fn

\* line 118 with > for >=: a 500 itself is no longer a failure
ServerErrorAbove500(r, status) == status > 500 /\ Cacheable(r)

\* line 118 without the test of cacheable
ServerErrorAnyMethod(r, status) == status >= 500

\* line 118 with 400 for 500: a client error is a failure too
ServerErrorFrom400(r, status) == status >= 400 /\ Cacheable(r)

\* the status check of line 118
ServerError(r, status) == status >= 500 /\ Cacheable(r)

\* io.ReadAll returns the body; a 5xx reply to a cacheable request is a failure
ReadBody(p) ==
    /\ pc[p] = "read"
    /\ IF ServerError(req[p], up[p].status)
       THEN /\ pc' = [pc EXCEPT ![p] = "fallback"]
            /\ cause' = [cause EXCEPT ![p] = "upstream status " \o ToString(up[p].status)]
       ELSE /\ pc' = [pc EXCEPT ![p] = "forward"]
            /\ UNCHANGED cause
    /\ UNCHANGED <<now, ttl, data, req, out, err, up, entry, got, resp, calls>>
    /\ UNCHANGED lockVars
    /\ UNCHANGED fn

\* line 129 without the test of cacheable
StorableAnyMethod(r, status) == status >= 200 /\ status <= 299

\* line 129 without the lower end of the range
StorableUpTo299(r, status) == Cacheable(r) /\ status <= 299

\* line 129 without the upper end of the range
StorableBelow500(r, status) == Cacheable(r) /\ status >= 200

\* the test of line 129: a cacheable request answered 2xx is saved
Storable(r, status) == Cacheable(r) /\ status >= 200 /\ status <= 299

\* lines 141-148: the X-Cache value of a forwarded reply
XCacheValue(saved, cacheable) ==
    IF saved THEN "MISS" ELSE IF cacheable THEN "PASS" ELSE "BYPASS"

\* lines 124-125: the reply's headers, hop-by-hop ones dropped, and X-Served-By
ForwardHeaders(w, reply) ==
    HeaderSet(CopyHeadersForClient(w.header, reply.header), "X-Served-By", "Aegis")

\* lines 141-151: X-Cache, then the upstream's status and body
WriteReply(w, reply, saved, cacheable) ==
    [written |-> TRUE,
     status |-> reply.status,
     header |-> HeaderSet(w.header, "X-Cache", XCacheValue(saved, cacheable)),
     body |-> reply.body]

\* lines 130-134: the entry, SavedAt = time.Now() = t, ExpireAt still to come
NewEntry(reply, t) ==
    [status |-> reply.status,
     header |-> CloneHeaderSanitized(reply.header),
     body |-> reply.body,
     savedAt |-> t,
     expireAt |-> 0]

\* a reply that is not saved taking the entry under the request's key out of
\* the Store
ForwardInvalidate(p) ==
    /\ pc[p] = "forward"
    /\ LET w == [resp[p] EXCEPT !.header = ForwardHeaders(resp[p], up[p])]
       IN IF Storable(req[p], up[p].status)
          THEN /\ entry' = [entry EXCEPT ![p] = NewEntry(up[p], now)]
               /\ resp' = [resp EXCEPT ![p] = w]
               /\ pc' = [pc EXCEPT ![p] = "expiry"]
               /\ UNCHANGED data
          ELSE /\ resp' = [resp EXCEPT ![p] = WriteReply(w, up[p], FALSE, Cacheable(req[p]))]
               /\ pc' = [pc EXCEPT ![p] = "done"]
               /\ data' = [k \in DOMAIN data \ {CacheKey(req[p])} |-> data[k]]
               /\ UNCHANGED entry
    /\ UNCHANGED <<now, ttl, req, out, err, up, cause, got, calls>>
    /\ UNCHANGED lockVars
    /\ UNCHANGED fn

\* lines 123-134: the reply's headers go to the client; a reply that is not
\* saved is written at once, for one that is saved the entry is begun
Forward(p) ==
    /\ pc[p] = "forward"
    /\ LET w == [resp[p] EXCEPT !.header = ForwardHeaders(resp[p], up[p])]
       IN IF Storable(req[p], up[p].status)
          THEN /\ entry' = [entry EXCEPT ![p] = NewEntry(up[p], now)]
               /\ resp' = [resp EXCEPT ![p] = w]
               /\ pc' = [pc EXCEPT ![p] = "expiry"]
          ELSE /\ resp' = [resp EXCEPT ![p] = WriteReply(w, up[p], FALSE, Cacheable(req[p]))]
               /\ pc' = [pc EXCEPT ![p] = "done"]
               /\ UNCHANGED entry
    /\ UNCHANGED <<now, ttl, data, req, out, err, up, cause, got, calls>>
    /\ UNCHANGED lockVars
    /\ UNCHANGED fn

\* line 135: ExpireAt = utils.ZeroOrExpiry(p.ttl), a second reading of the clock
Expiry(p) ==
    /\ pc[p] = "expiry"
    /\ entry' = [entry EXCEPT ![p].expireAt = ZeroOrExpiry(now, ttl)]
    /\ pc' = [pc EXCEPT ![p] = "set"]
    /\ UNCHANGED <<now, ttl, data, req, out, err, up, cause, got, resp, calls>>
    /\ UNCHANGED lockVars
    /\ UNCHANGED fn

\* line 137: p.cache.Set(cacheKey, entry)
Save(p) ==
    /\ pc[p] = "set"
    /\ data' = CacheSet(data, CacheKey(req[p]), entry[p])
    /\ calls' = [calls EXCEPT ![p].set = @ + 1]
    /\ pc' = [pc EXCEPT ![p] = "write"]
    /\ UNCHANGED <<now, ttl, req, out, err, up, cause, entry, got, resp>>
    /\ UNCHANGED lockVars
    /\ UNCHANGED fn

\* lines 141-151 after a save
WriteSaved(p) ==
    /\ pc[p] = "write"
    /\ resp' = [resp EXCEPT ![p] = WriteReply(resp[p], up[p], TRUE, Cacheable(req[p]))]
    /\ pc' = [pc EXCEPT ![p] = "done"]
    /\ UNCHANGED <<now, ttl, data, req, out, err, up, cause, entry, got, calls>>
    /\ UNCHANGED lockVars
    /\ UNCHANGED fn

\* lines 157-162: the stored response as the answer
ServeBackup(w, cached) ==
    [written |-> TRUE,
     status |-> cached.status,
     header |-> HeaderSet(
                    HeaderSet(
                        HeaderSet(CopyHeadersForClient(w.header, cached.header),
                                  "X-Served-By", "Aegis"),
                        "X-Cache", "HIT-BACKUP"),
                    "X-Backup-Saved-At", FormatRFC3339(cached.savedAt)),
     body |-> cached.body]

\* tryServeFromCache returning without an answer when there is no backup
NoBackupNoAnswer(w, why) == w

\* line 166 without the cause
NoBackupNoCause(w, why) ==
    HttpError(w, "Bad Gateway (no cached backup)", BadGateway)

\* line 166: no backup
NoBackup(w, why) ==
    HttpError(w, "Bad Gateway (no cached backup): " \o why, BadGateway)

\* tryServeFromCache deleting the expired entry it finds under the key
TryServeFromCacheEvict(p) ==
    /\ pc[p] = "fallback"
    /\ LET k == CacheKey(req[p])
           g == CacheGet(data, k, now)
       IN /\ got' = [got EXCEPT ![p] = g]
          /\ resp' = [resp EXCEPT ![p] =
                         IF g.ok THEN ServeBackup(resp[p], g.v)
                         ELSE NoBackup(resp[p], cause[p])]
          /\ data' = IF g.ok THEN data ELSE [j \in DOMAIN data \ {k} |-> data[j]]
    /\ calls' = [calls EXCEPT ![p].get = @ + 1]
    /\ pc' = [pc EXCEPT ![p] = "done"]
    /\ UNCHANGED <<now, ttl, req, out, err, up, cause, entry>>
    /\ UNCHANGED lockVars
    /\ UNCHANGED fn

\* Proxy.tryServeFromCache
TryServeFromCache(p) ==
    /\ pc[p] = "fallback"
    /\ LET g == CacheGet(data, CacheKey(req[p]), now)
       IN /\ got' = [got EXCEPT ![p] = g]
          /\ resp' = [resp EXCEPT ![p] =
                         IF g.ok THEN ServeBackup(resp[p], g.v)
                         ELSE NoBackup(resp[p], cause[p])]
    /\ calls' = [calls EXCEPT ![p].get = @ + 1]
    /\ pc' = [pc EXCEPT ![p] = "done"]
    /\ UNCHANGED <<now, ttl, data, req, out, err, up, cause, entry>>
    /\ UNCHANGED lockVars
    /\ UNCHANGED fn

\* a step of the proxy: time passes, or one of the handlers H moves, taking
\* requests from R and upstream statuses from S
Step(H, R, S) ==
    \/ Tick
    \/ \E p \in H, r \in R, e \in {""} \cup BuildErrors : Start(p, r, e)
    \/ \E p \in H, e \in TransportErrors : DoError(p, e)
    \/ \E p \in H : \E reply \in {u \in UpstreamReplies(req[p].method) : u.status \in S} :
          DoReply(p, reply)
    \/ \E p \in H, e \in ReadErrors : ReadError(p, e)
    \/ \E p \in H : ReadBody(p)
    \/ \E p \in H : Forward(p)
    \/ \E p \in H : Expiry(p)
    \/ \E p \in H : Save(p)
    \/ \E p \in H : WriteSaved(p)
    \/ \E p \in H : TryServeFromCache(p)

\* requests served one after the other, with every request and reply
Next == Step({1}, Requests, Statuses)

Spec == Init /\ [][Next]_vars

\* two requests in flight at once, both GET and answered 200 or 500
ConcurrentRequests == {r \in Requests : r.method = "GET"}
ConcurrentStatuses == {200, 500}

NextConcurrent == Step(Handlers, ConcurrentRequests, ConcurrentStatuses)

SpecConcurrent == Init /\ [][NextConcurrent]_vars

\* the steps of handler p on the request it has taken, with upstream
\* statuses from S: the goroutine runs on, and Client.Do returns, with the
\* upstream's reply or with an error, which its timeout brings at the latest
Handle(p, S) ==
    \/ \E e \in TransportErrors : DoError(p, e)
    \/ \E reply \in {u \in UpstreamReplies(req[p].method) : u.status \in S} : DoReply(p, reply)
    \/ \E e \in ReadErrors : ReadError(p, e)
    \/ ReadBody(p)
    \/ Forward(p)
    \/ Expiry(p)
    \/ Save(p)
    \/ WriteSaved(p)
    \/ TryServeFromCache(p)

\* requests served one after the other by a handler that keeps running,
\* under a TTL above zero and with a reply of each kind: saved, passed on,
\* and a failure
LiveStatuses == {200, 404, 500}

InitLive == Init /\ ttl = MaxTTL

NextLive == Step({1}, Requests, LiveStatuses)

SpecLive == InitLive /\ [][NextLive]_vars /\ WF_vars(Handle(1, LiveStatuses))

\* requests that carry headers, hop-by-hop ones among them in one spelling
\* or another, served one after the other
CarriedHeaders ==
    { EmptyHeader,
      [n \in {"Content-Type", "Connection", "Authorization"} |->
          IF n = "Content-Type" THEN <<"text/plain">>
          ELSE IF n = "Connection" THEN <<"keep-alive">>
          ELSE <<"t", "u">>],
      [n \in {"TE", "Transfer-Encoding", "X-Custom-Header"} |->
          IF n = "TE" THEN <<"trailers">>
          ELSE IF n = "Transfer-Encoding" THEN <<"chunked">>
          ELSE <<"v">>],
      [n \in {"connection"} |-> <<"close">>] }

HeaderRequests ==
    [method : {"GET", "POST"}, path : Paths, rawQuery : Queries, header : CarriedHeaders]

NextHeaders == Step({1}, HeaderRequests, ConcurrentStatuses)

\* a proxy without a TTL
InitNoTTL == Init /\ ttl = 0

SpecHeaders == InitNoTTL /\ [][NextHeaders]_vars

(***************************************************************************)
(* internal/cache: the methods step by step, under the RWMutex             *)
(*   mu      Cache.mu                                                      *)
(*   call    the call of a cache method each goroutine has under way       *)
(*   latest  per key, the value of the Set that took the write lock last   *)
(*           (a record of the past, kept for the properties)               *)
(***************************************************************************)
\* goroutine c enters a method of the cache
Enter(c, op, key, value) ==
    call' = [call EXCEPT ![c] =
                [NoCall EXCEPT !.op = op, !.at = "lock", !.key = key, !.value = value]]

\* c.mu.RLock() of Get, Size and MemoryUsage returns
RLock(c) ==
    /\ call[c].at = "lock"
    /\ call[c].op \in {"Get", "Size", "MemoryUsage"}
    /\ CanRLock(mu)
    /\ mu' = [mu EXCEPT !.readers = @ \cup {c}]
    /\ call' = [call EXCEPT ![c].at = "held"]
    /\ UNCHANGED <<now, data, latest>>
    /\ UNCHANGED proxyVars
    /\ UNCHANGED fn

\* c.mu.Lock() of Set returns
Lock(c) ==
    /\ call[c].at = "lock"
    /\ call[c].op = "Set"
    /\ CanLock(mu)
    /\ mu' = [mu EXCEPT !.writer = c]
    /\ call' = [call EXCEPT ![c].at = "held"]
    /\ latest' = [k \in DOMAIN latest \cup {call[c].key} |->
                     IF k = call[c].key THEN call[c].value ELSE latest[k]]
    /\ UNCHANGED <<now, data>>
    /\ UNCHANGED proxyVars
    /\ UNCHANGED fn

\* Get, lines 37-47: the lookup and the TTL check against time.Now()
GetLoad(c) ==
    /\ call[c].at = "held"
    /\ call[c].op = "Get"
    /\ LET g == CacheGet(data, call[c].key, now)
       IN call' = [call EXCEPT ![c].v = g.v, ![c].ok = g.ok, ![c].at = "unlock"]
    /\ UNCHANGED <<now, data, mu, latest>>
    /\ UNCHANGED proxyVars
    /\ UNCHANGED fn

\* Set, line 54, begun: the assignment copies the value into the key's place
\* in the map field by field; status, header and body are there, SavedAt and
\* ExpireAt are still those of the entry before (zero for a new key)
SetSlot(c) ==
    /\ call[c].at = "held"
    /\ call[c].op = "Set"
    /\ LET before == IF call[c].key \in DOMAIN data THEN data[call[c].key] ELSE ZeroResponse
       IN data' = [k \in DOMAIN data \cup {call[c].key} |->
                      IF k = call[c].key
                      THEN [before EXCEPT !.status = call[c].value.status,
                                          !.header = call[c].value.header,
                                          !.body = call[c].value.body]
                      ELSE data[k]]
    /\ call' = [call EXCEPT ![c].at = "store"]
    /\ UNCHANGED <<now, mu, latest>>
    /\ UNCHANGED proxyVars
    /\ UNCHANGED fn

\* Set, line 54, completed: the value is in the map as a whole
SetStore(c) ==
    /\ call[c].at = "store"
    /\ call[c].op = "Set"
    /\ data' = CacheSet(data, call[c].key, call[c].value)
    /\ call' = [call EXCEPT ![c].at = "unlock"]
    /\ UNCHANGED <<now, mu, latest>>
    /\ UNCHANGED proxyVars
    /\ UNCHANGED fn

\* Size, line 61
SizeLen(c) ==
    /\ call[c].at = "held"
    /\ call[c].op = "Size"
    /\ call' = [call EXCEPT ![c].n = CacheSize(data), ![c].at = "unlock"]
    /\ UNCHANGED <<now, data, mu, latest>>
    /\ UNCHANGED proxyVars
    /\ UNCHANGED fn

\* MemoryUsage, lines 69-70: total is 0 and the loop over c.data begins
MemoryUsageRange(c) ==
    /\ call[c].at = "held"
    /\ call[c].op = "MemoryUsage"
    /\ call' = [call EXCEPT ![c].total = 0,
                            ![c].todo = DOMAIN data,
                            ![c].at = IF DOMAIN data = {} THEN "unlock" ELSE "scan"]
    /\ UNCHANGED <<now, data, mu, latest>>
    /\ UNCHANGED proxyVars
    /\ UNCHANGED fn

\* MemoryUsage, lines 70-82: one pass of the loop, for an entry k not yet
\* visited (range takes the entries of a map in no fixed order)
MemoryUsageEntry(c, k) ==
    /\ call[c].at = "scan"
    /\ k \in call[c].todo
    /\ k \in DOMAIN data
    /\ call' = [call EXCEPT ![c].total = @ + EntryBytes(k, data[k]),
                            ![c].todo = @ \ {k},
                            ![c].at = IF call[c].todo = {k} THEN "unlock" ELSE "scan"]
    /\ UNCHANGED <<now, data, mu, latest>>
    /\ UNCHANGED proxyVars
    /\ UNCHANGED fn

\* Get returning from its miss and expired branches with the read lock held
RUnlockOnHitOnly(c) ==
    /\ call[c].at = "unlock"
    /\ call[c].op \in {"Get", "Size", "MemoryUsage"}
    /\ mu' = IF call[c].op = "Get" /\ ~call[c].ok THEN mu
             ELSE [mu EXCEPT !.readers = @ \ {c}]
    /\ call' = [call EXCEPT ![c].at = "returned"]
    /\ UNCHANGED <<now, data, latest>>
    /\ UNCHANGED proxyVars
    /\ UNCHANGED fn

\* the deferred c.mu.RUnlock() of Get, Size and MemoryUsage, and the return
RUnlock(c) ==
    /\ call[c].at = "unlock"
    /\ call[c].op \in {"Get", "Size", "MemoryUsage"}
    /\ mu' = [mu EXCEPT !.readers = @ \ {c}]
    /\ call' = [call EXCEPT ![c].at = "returned"]
    /\ UNCHANGED <<now, data, latest>>
    /\ UNCHANGED proxyVars
    /\ UNCHANGED fn

\* Set returning with the write lock still held
UnlockNot(c) ==
    /\ call[c].at = "unlock"
    /\ call[c].op = "Set"
    /\ call' = [call EXCEPT ![c].at = "returned"]
    /\ UNCHANGED <<now, data, mu, latest>>
    /\ UNCHANGED proxyVars
    /\ UNCHANGED fn

\* the deferred c.mu.Unlock() of Set, and the return
Unlock(c) ==
    /\ call[c].at = "unlock"
    /\ call[c].op = "Set"
    /\ mu' = [mu EXCEPT !.writer = 0]
    /\ call' = [call EXCEPT ![c].at = "returned"]
    /\ UNCHANGED <<now, data, latest>>
    /\ UNCHANGED proxyVars
    /\ UNCHANGED fn

\* the steps of the cache's methods, for the goroutines H
CacheStep(H) ==
    \/ \E c \in H : RLock(c)
    \/ \E c \in H : Lock(c)
    \/ \E c \in H : GetLoad(c)
    \/ \E c \in H : SetSlot(c)
    \/ \E c \in H : SetStore(c)
    \/ \E c \in H : SizeLen(c)
    \/ \E c \in H : MemoryUsageRange(c)
    \/ \E c \in H : \E k \in call[c].todo : MemoryUsageEntry(c, k)
    \/ \E c \in H : RUnlock(c)
    \/ \E c \in H : Unlock(c)

(***************************************************************************)
(* The cache by itself: goroutines call its methods with keys and values   *)
(* of their own, as the package's tests and the /stats handler do.         *)
(***************************************************************************)
CacheKeys == {"key1", "key2"}

\* status, header and body of the values
CacheContents ==
    { [status |-> 200,
       header |-> [n \in {"Content-Type"} |-> <<"application/json">>],
       body |-> "test body"],
      [status |-> 204,
       header |-> [n \in {"X-Custom-Header"} |-> <<"one", "two">>],
       body |-> ""] }

\* the values a goroutine builds at clock t: ExpireAt is zero, or the clock
\* plus one of the offsets E
CacheValues(t, E) ==
    { [status |-> c.status, header |-> c.header, body |-> c.body,
       savedAt |-> t, expireAt |-> e] :
          c \in CacheContents, e \in {0} \cup {t + d : d \in E} }

\* a goroutine that is in no call enters Get, Set, Size or MemoryUsage
CallGet(c, key) ==
    /\ call[c].at \in {"idle", "returned"}
    /\ Enter(c, "Get", key, ZeroResponse)
    /\ UNCHANGED <<now, data, mu, latest>>
    /\ UNCHANGED proxyVars
    /\ UNCHANGED fn

CallSet(c, key, value) ==
    /\ call[c].at \in {"idle", "returned"}
    /\ Enter(c, "Set", key, value)
    /\ UNCHANGED <<now, data, mu, latest>>
    /\ UNCHANGED proxyVars
    /\ UNCHANGED fn

CallSize(c) ==
    /\ call[c].at \in {"idle", "returned"}
    /\ Enter(c, "Size", "", ZeroResponse)
    /\ UNCHANGED <<now, data, mu, latest>>
    /\ UNCHANGED proxyVars
    /\ UNCHANGED fn

CallMemoryUsage(c) ==
    /\ call[c].at \in {"idle", "returned"}
    /\ Enter(c, "MemoryUsage", "", ZeroResponse)
    /\ UNCHANGED <<now, data, mu, latest>>
    /\ UNCHANGED proxyVars
    /\ UNCHANGED fn

\* time passes, a goroutine of H enters a method with a key of K and, at
\* clock t, a value of V[t], or a call under way takes a step
StepCache(H, K, V) ==
    \/ Tick
    \/ \E c \in H, key \in K : CallGet(c, key)
    \/ \E c \in H, key \in K : \E value \in V[now] : CallSet(c, key, value)
    \/ \E c \in H : CallSize(c)
    \/ \E c \in H : CallMemoryUsage(c)
    \/ CacheStep(H)

\* a cache of its own, as cache.New makes it: no proxy and no TTL
InitCache == Init /\ ttl = 0

\* the expiry offsets: in the past, now, in the future
ExpiryOffsets == {-1, 0, 1}

\* one goroutine calling the cache, with values built at the time of the call
NextCache ==
    StepCache({1}, CacheKeys, [t \in 1..MaxTime |-> CacheValues(t, ExpiryOffsets)])

SpecCache == InitCache /\ [][NextCache]_vars

\* two goroutines calling the cache at once, with the values built when the
\* clock started, some of which expire with its first tick
NextCacheConcurrent ==
    StepCache(Handlers, CacheKeys, [t \in 1..MaxTime |-> CacheValues(1, {0})])

SpecCacheConcurrent == InitCache /\ [][NextCacheConcurrent]_vars

\* the steps goroutine c takes by itself once it has the lock: they wait for
\* nothing
Proceed(c) ==
    \/ GetLoad(c)
    \/ SetSlot(c)
    \/ SetStore(c)
    \/ SizeLen(c)
    \/ MemoryUsageRange(c)
    \/ \E k \in call[c].todo : MemoryUsageEntry(c, k)
    \/ RUnlock(c)
    \/ Unlock(c)

\* the scheduling of goroutine c: it runs on while it can, and of those that
\* wait for the RWMutex none is passed over for ever, as sync.RWMutex has it
\* (a blocked Lock keeps new readers out, Unlock wakes the readers that wait)
Scheduled(c) ==
    /\ WF_vars(Proceed(c))
    /\ SF_vars(RLock(c))
    /\ SF_vars(Lock(c))

\* the values of SpecCacheScheduled: one content, with no expiry or expiring
\* with the first tick of the clock
ScheduledValues == {v \in CacheValues(1, {0}) : v.status = 200}

\* two goroutines calling the cache at once, each of them scheduled
NextCacheScheduled ==
    StepCache(Handlers, CacheKeys, [t \in 1..MaxTime |-> ScheduledValues])

SpecCacheScheduled ==
    InitCache /\ [][NextCacheScheduled]_vars /\ \A c \in Handlers : Scheduled(c)

(***************************************************************************)
(* The proxy over the cache's steps: where Spec and SpecConcurrent take    *)
(* Cache.Get and Cache.Set as one step each, the handler here enters the   *)
(* method, the method runs step by step under the lock, and the handler    *)
(* goes on when it has returned.                                           *)
(***************************************************************************)
\* tryServeFromCache, line 155: the handler enters Cache.Get with its key
FallbackCall(p) ==
    /\ pc[p] = "fallback"
    /\ Enter(p, "Get", CacheKey(req[p]), ZeroResponse)
    /\ pc' = [pc EXCEPT ![p] = "get"]
    /\ UNCHANGED <<now, ttl, data, req, out, err, up, cause, entry, got, resp, calls>>
    /\ UNCHANGED <<mu, latest>>
    /\ UNCHANGED fn

\* tryServeFromCache, lines 155-166: Cache.Get has returned cached and ok
FallbackReturn(p) ==
    /\ pc[p] = "get"
    /\ call[p].at = "returned"
    /\ LET g == [v |-> call[p].v, ok |-> call[p].ok]
       IN /\ got' = [got EXCEPT ![p] = g]
          /\ resp' = [resp EXCEPT ![p] =
                         IF g.ok THEN ServeBackup(resp[p], g.v)
                         ELSE NoBackup(resp[p], cause[p])]
    /\ calls' = [calls EXCEPT ![p].get = @ + 1]
    /\ pc' = [pc EXCEPT ![p] = "done"]
    /\ call' = [call EXCEPT ![p] = NoCall]
    /\ UNCHANGED <<now, ttl, data, req, out, err, up, cause, entry>>
    /\ UNCHANGED <<mu, latest>>
    /\ UNCHANGED fn

\* the handler going on to write the response without the call of Cache.Set
SaveCallSkipped(p) ==
    /\ pc[p] = "set"
    /\ pc' = [pc EXCEPT ![p] = "write"]
    /\ calls' = [calls EXCEPT ![p].set = @ + 1]
    /\ UNCHANGED <<now, ttl, data, req, out, err, up, cause, entry, got, resp>>
    /\ UNCHANGED lockVars
    /\ UNCHANGED fn

\* line 137: the handler enters Cache.Set with its key and the entry
SaveCall(p) ==
    /\ pc[p] = "set"
    /\ Enter(p, "Set", CacheKey(req[p]), entry[p])
    /\ pc' = [pc EXCEPT ![p] = "setting"]
    /\ UNCHANGED <<now, ttl, data, req, out, err, up, cause, entry, got, resp, calls>>
    /\ UNCHANGED <<mu, latest>>
    /\ UNCHANGED fn

\* lines 137-138: Cache.Set has returned
SaveReturn(p) ==
    /\ pc[p] = "setting"
    /\ call[p].at = "returned"
    /\ calls' = [calls EXCEPT ![p].set = @ + 1]
    /\ pc' = [pc EXCEPT ![p] = "write"]
    /\ call' = [call EXCEPT ![p] = NoCall]
    /\ UNCHANGED <<now, ttl, data, req, out, err, up, cause, entry, got, resp>>
    /\ UNCHANGED <<mu, latest>>
    /\ UNCHANGED fn

\* a step of the proxy with the handlers H, requests R and upstream replies U,
\* where building the outbound request fails with the errors B and sending it
\* with the errors T
StepLockedWith(H, R, U, B, T) ==
    \/ Tick
    \/ \E p \in H, r \in R, e \in {""} \cup B : Start(p, r, e)
    \/ \E p \in H, e \in T : DoError(p, e)
    \/ \E p \in H : \E reply \in UpstreamReplies(req[p].method) \cap U : DoReply(p, reply)
    \/ \E p \in H, e \in ReadErrors : ReadError(p, e)
    \/ \E p \in H : ReadBody(p)
    \/ \E p \in H : Forward(p)
    \/ \E p \in H : Expiry(p)
    \/ \E p \in H : SaveCall(p)
    \/ \E p \in H : Lock(p)
    \/ \E p \in H : SetSlot(p)
    \/ \E p \in H : SetStore(p)
    \/ \E p \in H : Unlock(p)
    \/ \E p \in H : SaveReturn(p)
    \/ \E p \in H : WriteSaved(p)
    \/ \E p \in H : FallbackCall(p)
    \/ \E p \in H : RLock(p)
    \/ \E p \in H : GetLoad(p)
    \/ \E p \in H : RUnlock(p)
    \/ \E p \in H : FallbackReturn(p)

\* the same with every error of the model
StepLocked(H, R, U) == StepLockedWith(H, R, U, BuildErrors, TransportErrors)

\* the replies of SpecLocked: a 200 and a 500 with the first of the contents
LockedReplies ==
    {u \in UpstreamReplies("GET") : u.status \in ConcurrentStatuses /\ u.body = "success"}

\* a proxy whose TTL is above zero
InitLocked == Init /\ ttl = MaxTTL

NextLocked == StepLocked(Handlers, ConcurrentRequests, LockedReplies)

SpecLocked == InitLocked /\ [][NextLocked]_vars

\* the same proxy without a TTL, so that an entry never expires, serving GET
\* and HEAD, whose keys differ
CacheableRequests == {r \in Requests : Cacheable(r)}

\* a 200 and a 500 for each of the two methods, with the first of the contents
NoTTLReplies ==
    {u \in UpstreamReplies("GET") \cup UpstreamReplies("HEAD") :
        u.status \in ConcurrentStatuses /\ "Content-Type" \in DOMAIN u.header}

\* of the errors, the refused connection and the body that breaks off
NextLockedNoTTL ==
    StepLockedWith(Handlers, CacheableRequests, NoTTLReplies, {}, {"connection refused"})

SpecLockedNoTTL == InitNoTTL /\ [][NextLockedNoTTL]_vars

(***************************************************************************)
(* Proxy.cacheKey by itself: proxies with one keyHeaders configuration or  *)
(* another compute the keys of requests, as the tests of cacheKey do.      *)
(***************************************************************************)
\* cache.key_headers as configured: none, one header in either spelling, two
\* headers in either order
KeyHeaderConfigs ==
    { <<>>, <<"Authorization">>, <<"authorization">>,
      <<"Authorization", "X-Custom-Header">>, <<"X-Custom-Header", "Authorization">> }

\* the headers of the requests keyed: none, an Authorization of one value or
\* another, of an empty value, of two values, and with an X-Custom-Header
KeyedHeaders ==
    { EmptyHeader,
      [n \in {"Authorization"} |-> <<"t">>],
      [n \in {"Authorization"} |-> <<"u">>],
      [n \in {"Authorization"} |-> <<"">>],
      [n \in {"Authorization"} |-> <<"t", "u">>],
      [n \in {"Authorization"} |-> <<"t|X-Custom-Header:v">>],
      [n \in {"Authorization", "X-Custom-Header"} |->
          IF n = "Authorization" THEN <<"t">> ELSE <<"v">>] }

\* the cacheable requests keyed; URL.Path is the decoded path, where an
\* escaped question mark stands as itself
KeyedRequests ==
    [method : {"GET", "HEAD"}, path : {"/a", "/a?b"}, rawQuery : {"", "b?"},
     header : KeyedHeaders]

\* p.cacheKey(r) is called on a proxy whose keyHeaders are given
CallCacheKey(keyHeaders, r) ==
    /\ fn' = [f |-> "cacheKey", args |-> <<keyHeaders, r>>,
              result |-> CacheKeyOf(keyHeaders, r), at |-> now]
    /\ UNCHANGED <<now, data>>
    /\ UNCHANGED proxyVars
    /\ UNCHANGED lockVars

NextCacheKey ==
    \/ Tick
    \/ \E keyHeaders \in KeyHeaderConfigs, r \in KeyedRequests : CallCacheKey(keyHeaders, r)

SpecCacheKey == InitNoTTL /\ [][NextCacheKey]_vars

(***************************************************************************)
(* The helpers of internal/utils by themselves, called as their tests call *)
(* them.                                                                   *)
(***************************************************************************)
\* base paths and request paths: those of TestSingleSlashJoin, and two with
\* more than one slash at an end
JoinPaths == {"", "/", "/api", "/api/", "api", "api/", "/v1", "v1", "//x", "/api//"}

\* SingleSlashJoin(a, b) is called
CallSingleSlashJoin(a, b) ==
    /\ fn' = [f |-> "SingleSlashJoin", args |-> <<a, b>>,
              result |-> SingleSlashJoin(a, b), at |-> now]
    /\ UNCHANGED <<now, data>>
    /\ UNCHANGED proxyVars
    /\ UNCHANGED lockVars

\* the contexts of inbound requests: without a deadline, or with one that
\* has passed, is near or is far
ParentContexts == {NoDeadline} \cup {DeadlineAt(t) : t \in 0..(MaxTime + 2)}

\* the configured timeouts; time.ParseDuration takes zero and below as well
Timeouts == {-1, 0, 1, 2}

\* RequestContextWithTimeout(parent, d) is called at the clock's present
\* value, and has come to context.WithTimeout when the clock shows t2
CallRequestContextWithTimeout(parent, d, t2) ==
    /\ t2 >= now
    /\ fn' = [f |-> "RequestContextWithTimeout", args |-> <<parent, d, now, t2>>,
              result |-> RequestContextWithTimeout(parent, d, now, t2), at |-> now]
    /\ UNCHANGED <<now, data>>
    /\ UNCHANGED proxyVars
    /\ UNCHANGED lockVars

NextUtils ==
    \/ Tick
    \/ \E a \in JoinPaths, b \in JoinPaths : CallSingleSlashJoin(a, b)
    \/ \E parent \in ParentContexts, d \in Timeouts, t2 \in 1..MaxTime :
          CallRequestContextWithTimeout(parent, d, t2)

SpecUtils == InitNoTTL /\ [][NextUtils]_vars

(***************************************************************************)
(* Vocabulary of the properties                                            *)
(***************************************************************************)
\* the values a response carries under a header name
Values(w, name) == IF name \in DOMAIN w.header THEN w.header[name] ELSE <<>>

\* text sub occurs in text s
Includes(s, sub) ==
    \E i \in 1..(Len(s) - Len(sub) + 1) : SubSeq(s, i, i + Len(sub) - 1) = sub

InRange2xx(status) == status \in 200..299

\* handler p has answered its request
Answered(p) == pc[p] = "done" /\ resp[p].written

\* the upstream attempt of p's request failed: an error building, sending or
\* reading, or a reply with a status of 500 or more
AttemptFailed(p) == err[p] # "" \/ up[p].status >= 500

\* what set off the failure, as the client should read it
Trigger(p) == IF err[p] # "" THEN err[p] ELSE ToString(up[p].status)

\* the Store holds an entry under k that has not expired at t
Unexpired(d, k, t) == k \in DOMAIN d /\ (d[k].expireAt = 0 \/ t < d[k].expireAt)

\* handler p takes the step of tryServeFromCache
FallbackStep(p) == pc[p] = "fallback" /\ pc'[p] = "done"

\* handler p takes a step
StepOf(p) == pc'[p] # pc[p] \/ req'[p] # req[p]

(***************************************************************************)
(* C1  Failover.  A cacheable request whose upstream attempt fails always  *)
(* goes to the Store, and when the Store then holds an unexpired entry     *)
(* under the request's key, the response has that entry's status and body  *)
(* and X-Cache: HIT-BACKUP.                                                *)
(***************************************************************************)
C1_Failover ==
    /\ [](\A p \in Handlers :
            (Answered(p) /\ Cacheable(req[p]) /\ AttemptFailed(p)) => calls[p].get = 1)
    /\ [][\A p \in Handlers :
            (FallbackStep(p) /\ Unexpired(data, CacheKey(req[p]), now)) =>
                /\ resp'[p].written
                /\ resp'[p].status = data[CacheKey(req[p])].status
                /\ resp'[p].body = data[CacheKey(req[p])].body
                /\ Values(resp'[p], "X-Cache") = <<"HIT-BACKUP">>]_vars

\* a GET answered 500, served the body "success" saved from an earlier 200
C1_Witness ==
    \E p \in Handlers :
        /\ Answered(p) /\ req[p].method = "GET" /\ up[p].status = 500
        /\ resp[p].status = 200 /\ resp[p].body = "success" /\ up[p].body = "other"
        /\ Values(resp[p], "X-Cache") = <<"HIT-BACKUP">>

(***************************************************************************)
(* C2  No cache, no fallback.  When the upstream attempt of a cacheable    *)
(* request fails and Cache.Get finds nothing retrievable under its key,    *)
(* the response is a 502 whose body includes what set off the failure.     *)
(***************************************************************************)
C2_NoCacheNoFallback ==
    \A p \in Handlers :
        (Answered(p) /\ Cacheable(req[p]) /\ AttemptFailed(p) /\ ~got[p].ok) =>
            /\ calls[p].get = 1
            /\ resp[p].status = 502
            /\ Includes(resp[p].body, Trigger(p))

\* the timeout fires for a GET while an expired entry is all the Store has
C2_Witness ==
    \E p \in Handlers :
        /\ Answered(p) /\ req[p].method = "GET" /\ err[p] = "context deadline exceeded"
        /\ CacheKey(req[p]) \in DOMAIN data
        /\ resp[p].status = 502

(***************************************************************************)
(* C3  As claimed: every failure of the upstream attempt of a              *)
(* non-cacheable request, a reply of 500 or more included, is answered     *)
(* with a synthesized 502 and without the Store.                           *)
(***************************************************************************)
C3_Original ==
    \A p \in Handlers :
        (Answered(p) /\ ~Cacheable(req[p]) /\ AttemptFailed(p)) =>
            /\ resp[p].status = 502
            /\ Includes(resp[p].body, "Bad Gateway")
            /\ calls[p].get = 0

(***************************************************************************)
(* C3  Amended: for a non-cacheable request an error building, sending or  *)
(* reading is answered with a synthesized 502 naming the error, while a    *)
(* reply of 500 or more is passed on with its own status and body and      *)
(* X-Cache: BYPASS; the Store is consulted in neither case.                *)
(***************************************************************************)
C3_NonCacheableFailure ==
    \A p \in Handlers :
        (Answered(p) /\ ~Cacheable(req[p]) /\ AttemptFailed(p)) =>
            /\ calls[p].get = 0
            /\ err[p] # "" =>
                 /\ resp[p].status = 502
                 /\ Includes(resp[p].body, "Bad Gateway: " \o err[p])
            /\ err[p] = "" =>
                 /\ resp[p].status = up[p].status
                 /\ resp[p].body = up[p].body
                 /\ Values(resp[p], "X-Cache") = <<"BYPASS">>

\* a POST answered 500 gets the upstream's 500
C3_Witness ==
    \E p \in Handlers :
        /\ Answered(p) /\ req[p].method = "POST" /\ up[p].status = 500
        /\ err[p] = "" /\ resp[p].status = 500 /\ resp[p].body = up[p].body
        /\ Values(resp[p], "X-Cache") = <<"BYPASS">>

(***************************************************************************)
(* C4  Method gating, store side.  A request whose method is neither GET   *)
(* nor HEAD calls neither Cache.Get nor Cache.Set, and no step of its      *)
(* handler changes the Store.                                              *)
(***************************************************************************)
C4_NonCacheableLeavesStore ==
    /\ [](\A p \in Handlers :
            (req[p] # NoRequest /\ ~Cacheable(req[p])) =>
                calls[p].get = 0 /\ calls[p].set = 0)
    /\ [][\A p \in Handlers :
            (StepOf(p) /\ ~Cacheable(req'[p])) => data' = data]_vars

\* a POST answered 200 while the Store holds an entry
C4_Witness ==
    \E p \in Handlers :
        /\ Answered(p) /\ req[p].method = "POST" /\ up[p].status = 200
        /\ data # EmptyData

(***************************************************************************)
(* C5  Method gating, annotation side, as claimed: every response to a     *)
(* request whose method is neither GET nor HEAD carries X-Cache: BYPASS.   *)
(***************************************************************************)
C5_Original ==
    \A p \in Handlers :
        (Answered(p) /\ ~Cacheable(req[p])) => Values(resp[p], "X-Cache") = <<"BYPASS">>

(***************************************************************************)
(* C6  Status gating.  A reply below 500 and outside 200..299 to a         *)
(* cacheable request reaches the client with its own status and body and   *)
(* X-Cache: PASS; the handler calls neither Cache.Get nor Cache.Set, none  *)
(* of its steps changes the Store, and the Store holds no entry with the   *)
(* reply's status.                                                         *)
(***************************************************************************)
PassedOn(p) ==
    /\ Cacheable(req[p]) /\ err[p] = "" /\ up[p] # NoReply
    /\ up[p].status < 500 /\ ~InRange2xx(up[p].status)

C6_StatusGating ==
    /\ [](\A p \in Handlers :
            (Answered(p) /\ PassedOn(p)) =>
                /\ resp[p].status = up[p].status
                /\ resp[p].body = up[p].body
                /\ Values(resp[p], "X-Cache") = <<"PASS">>
                /\ calls[p].get = 0 /\ calls[p].set = 0
                /\ \A k \in DOMAIN data : data[k].status # up[p].status)
    /\ [][\A p \in Handlers :
            (StepOf(p) /\ Cacheable(req'[p]) /\ ~InRange2xx(up'[p].status)) =>
                data' = data]_vars

\* a GET answered 404 after an earlier 200 was saved under its key
C6_Witness ==
    \E p \in Handlers :
        /\ Answered(p) /\ req[p].method = "GET" /\ up[p].status = 404
        /\ resp[p].status = 404 /\ Values(resp[p], "X-Cache") = <<"PASS">>
        /\ CacheKey(req[p]) \in DOMAIN data

(***************************************************************************)
(* C7  Store on success.  Both forms: a cacheable request answered 2xx     *)
(* calls Set once, and that Set puts under the request's key exactly the   *)
(* reply's status, body and headers without the hop-by-hop ones; the Set   *)
(* replaces the whole entry under that key and touches no other; and an    *)
(* entry stays as it is until the next Set under its key.                  *)
(***************************************************************************)
HopByHopNames ==
    {"Connection", "Proxy-Connection", "Keep-Alive", "Proxy-Authenticate",
     "Proxy-Authorization", "Te", "Trailer", "Transfer-Encoding", "Upgrade"}

WithoutHopByHop(h) == [n \in DOMAIN h \ HopByHopNames |-> h[n]]

\* handler p takes the step of Cache.Set
SaveStep(p) == pc[p] = "set" /\ pc'[p] = "write"

\* handler p takes the step of line 135
ExpiryStep(p) == pc[p] = "expiry" /\ pc'[p] = "set"

C7_Stored ==
    /\ [](\A p \in Handlers :
            (Answered(p) /\ Cacheable(req[p]) /\ err[p] = "" /\ InRange2xx(up[p].status)) =>
                /\ calls[p].set = 1
                /\ CacheKey(req[p]) \in DOMAIN data
                /\ Values(resp[p], "X-Cache") = <<"MISS">>)
    /\ [][\A p \in Handlers :
            SaveStep(p) =>
                /\ InRange2xx(up[p].status)
                /\ DOMAIN data' = DOMAIN data \cup {CacheKey(req[p])}
                /\ data'[CacheKey(req[p])] =
                       [status |-> up[p].status,
                        header |-> WithoutHopByHop(up[p].header),
                        body |-> up[p].body,
                        savedAt |-> entry[p].savedAt,
                        expireAt |-> entry[p].expireAt]]_vars
    /\ [][\A k \in DOMAIN data :
            /\ k \in DOMAIN data'
            /\ data'[k] # data[k] => \E q \in Handlers : SaveStep(q) /\ CacheKey(req[q]) = k]_vars

C8_Original ==
    \A p \in Handlers :
        Answered(p) =>
            LET xc == Values(resp[p], "X-Cache")
            IN /\ (xc = <<"MISS">>) <=> (calls[p].set = 1)
               /\ (xc = <<"PASS">>) <=>
                     /\ Cacheable(req[p]) /\ err[p] = "" /\ up[p] # NoReply
                     /\ up[p].status < 500 /\ calls[p].set = 0
               /\ (xc = <<"BYPASS">>) <=> ~Cacheable(req[p])
               /\ (xc = <<"HIT-BACKUP">>) <=> (AttemptFailed(p) /\ got[p].ok)

(***************************************************************************)
(* C9  As claimed: every response, the synthesized 502 included, carries   *)
(* X-Served-By: Aegis and an X-Cache header with the single value MISS,    *)
(* PASS, BYPASS or HIT-BACKUP.                                             *)
(***************************************************************************)
C9_Original ==
    \A p \in Handlers :
        Answered(p) =>
            /\ Values(resp[p], "X-Served-By") = <<"Aegis">>
            /\ Len(Values(resp[p], "X-Cache")) = 1
            /\ Values(resp[p], "X-Cache")[1] \in {"MISS", "PASS", "BYPASS", "HIT-BACKUP"}

(***************************************************************************)
(* C10  As claimed: a response carries X-Backup-Saved-At iff its X-Cache   *)
(* is HIT-BACKUP, whatever the upstream sent, and the value is the         *)
(* savedAt of the entry that was served.                                   *)
(***************************************************************************)
C10_Original ==
    \A p \in Handlers :
        Answered(p) =>
            /\ ("X-Backup-Saved-At" \in DOMAIN resp[p].header) <=>
                   (Values(resp[p], "X-Cache") = <<"HIT-BACKUP">>)
            /\ (Values(resp[p], "X-Cache") = <<"HIT-BACKUP">>) =>
                   Values(resp[p], "X-Backup-Saved-At") = <<FormatRFC3339(got[p].v.savedAt)>>

(***************************************************************************)
(* Vocabulary of the properties of the cache                               *)
(***************************************************************************)
\* goroutine c takes the step of Get that looks the key up and checks the TTL
GetStep(c) == call[c].op = "Get" /\ call[c].at = "held" /\ call'[c].at = "unlock"

\* goroutine c takes the step that begins the assignment of Set
SlotStep(c) == call[c].op = "Set" /\ call[c].at = "held" /\ call'[c].at = "store"

\* goroutine c takes the step that completes the assignment of Set
SetStep(c) == call[c].op = "Set" /\ call[c].at = "store" /\ call'[c].at = "unlock"

\* goroutine c takes the step of Size that counts
SizeStep(c) == call[c].op = "Size" /\ call[c].at = "held" /\ call'[c].at = "unlock"

\* goroutine c takes the step of MemoryUsage that completes total
TotalStep(c) ==
    call[c].op = "MemoryUsage" /\ call[c].at \in {"held", "scan"} /\ call'[c].at = "unlock"

\* goroutine c is between taking the lock and releasing it
Inside(c) == call[c].at \in {"held", "store", "scan", "unlock"}

\* the entry under k has expired at t and is still in the table
ExpiredAt(d, k, t) == k \in DOMAIN d /\ d[k].expireAt # 0 /\ d[k].expireAt < t

\* the sum of f over the set S
RECURSIVE SumOver(_, _)
SumOver(S, f) ==
    IF S = {} THEN 0
    ELSE LET x == CHOOSE y \in S : TRUE IN f[x] + SumOver(S \ {x}, f)

\* key lengths, body lengths, header name lengths and header value lengths
\* of the table d, each summed over the whole table
ExpectedBytes(d) ==
    LET names == UNION {{<<k, n>> : n \in DOMAIN d[k].header} : k \in DOMAIN d}
        places == UNION {{<<kn[1], kn[2], i>> : i \in 1..Len(d[kn[1]].header[kn[2]])} :
                            kn \in names}
    IN SumOver(DOMAIN d, [k \in DOMAIN d |-> Len(k)])
       + SumOver(DOMAIN d, [k \in DOMAIN d |-> Len(d[k].body)])
       + SumOver(names, [kn \in names |-> Len(kn[2])])
       + SumOver(places, [x \in places |-> Len(d[x[1]].header[x[2]][x[3]])])

(***************************************************************************)
(* C11  As claimed: Get(key) returns the entry and found = true iff an     *)
(* entry is present under key and its expireAt is zero or now < expireAt;  *)
(* in every other case, now = expireAt included, it returns found = false. *)
(***************************************************************************)
C11_Original ==
    [][\A c \in Handlers :
          GetStep(c) =>
              /\ call'[c].ok <=> Unexpired(data, call[c].key, now)
              /\ call'[c].ok => call'[c].v = data[call[c].key]]_vars

(***************************************************************************)
(* C12  TTL correctness, as claimed: with a TTL above zero, an entry the   *)
(* proxy stored with save time savedAt is returned by every Get before     *)
(* savedAt + TTL and by no Get after savedAt + TTL.                        *)
(***************************************************************************)
C12_Original ==
    [][\A p \in Handlers :
          (FallbackStep(p) /\ ttl > 0 /\ CacheKey(req[p]) \in DOMAIN data) =>
              LET stored == data[CacheKey(req[p])]
              IN /\ now < stored.savedAt + ttl => got'[p].ok /\ got'[p].v = stored
                 /\ now > stored.savedAt + ttl => ~got'[p].ok]_vars

(***************************************************************************)
(* C13  Zero TTL is eternal.  With a TTL of zero or below every entry the  *)
(* proxy stores has a zero expireAt, and an entry with a zero expireAt is  *)
(* returned by Get at every later time, as long as it is in the Store.     *)
(***************************************************************************)
C13_ZeroTTLEternal ==
    /\ [][\A p \in Handlers :
            (ExpiryStep(p) /\ ttl <= 0) => entry'[p].expireAt = 0]_vars
    /\ [](ttl <= 0 => \A k \in DOMAIN data : data[k].expireAt = 0)
    /\ [][\A p \in Handlers :
            (/\ FallbackStep(p)
             /\ CacheKey(req[p]) \in DOMAIN data
             /\ data[CacheKey(req[p])].expireAt = 0) =>
                /\ got'[p].ok
                /\ got'[p].v = data[CacheKey(req[p])]
                /\ Values(resp'[p], "X-Cache") = <<"HIT-BACKUP">>]_vars

\* with a TTL of zero, an entry saved when the clock started is served as
\* the backup when the clock has run to its end
C13_Witness ==
    \E p \in Handlers :
        /\ ttl = 0 /\ now = MaxTime
        /\ Answered(p) /\ AttemptFailed(p)
        /\ got[p].ok /\ got[p].v.savedAt = 1 /\ got[p].v.expireAt = 0
        /\ Values(resp[p], "X-Cache") = <<"HIT-BACKUP">>

(***************************************************************************)
(* C14  Set(k, v) puts v under k as a whole, whatever was there, and       *)
(* leaves every other entry as it was; entries change in no other way;    *)
(* and a Get(k) that follows returns exactly v when v has not expired, and *)
(* nothing but v, until the next Set(k).                                   *)
(***************************************************************************)
C14_SetReplaces ==
    /\ [][\A c \in Handlers :
            (SlotStep(c) \/ SetStep(c)) =>
                /\ DOMAIN data' = DOMAIN data \cup {call[c].key}
                /\ SetStep(c) => data'[call[c].key] = call[c].value
                /\ \A k \in DOMAIN data \ {call[c].key} : data'[k] = data[k]]_vars
    /\ [][\A k \in DOMAIN data :
            /\ k \in DOMAIN data'
            /\ data'[k] # data[k] =>
                  \E c \in Handlers : (SlotStep(c) \/ SetStep(c)) /\ call[c].key = k]_vars
    /\ [](\A c \in Handlers :
            (call[c].op = "Set" /\ call[c].at \in {"unlock", "returned"}
                /\ latest[call[c].key] = call[c].value) =>
                    data[call[c].key] = call[c].value)
    /\ [][\A c \in Handlers :
            (GetStep(c) /\ call[c].key \in DOMAIN latest) =>
                /\ Unexpired(latest, call[c].key, now) => call'[c].ok
                /\ call'[c].ok => call'[c].v = latest[call[c].key]]_vars

\* Get returns the 204 without a body that was Set last under key1 once the
\* clock had advanced, over an entry with another header, while key2 holds
\* a 200 from the start
C14_Witness ==
    \E c \in Handlers :
        /\ call[c].op = "Get" /\ call[c].at = "returned" /\ call[c].key = "key1"
        /\ call[c].ok /\ call[c].v.status = 204 /\ call[c].v.savedAt > 1
        /\ DOMAIN call[c].v.header = {"X-Custom-Header"}
        /\ "key2" \in DOMAIN data /\ data["key2"].status = 200 /\ data["key2"].savedAt = 1

(***************************************************************************)
(* C15  Size() returns the number of distinct keys that have been Set,     *)
(* expired entries counted: 0 for a new cache; a Set of a key that is      *)
(* there leaves the number as it is, Get leaves it as it is, and no step   *)
(* makes it smaller.                                                       *)
(***************************************************************************)
C15_SizeCountsKeys ==
    /\ [][\A c \in Handlers :
            SizeStep(c) => call'[c].n = Cardinality(DOMAIN latest)]_vars
    /\ [][\A c \in Handlers :
            (SizeStep(c) /\ latest = EmptyData) => call'[c].n = 0]_vars
    /\ [][\A c \in Handlers :
            ((SlotStep(c) \/ SetStep(c)) /\ call[c].key \in DOMAIN data) =>
                Cardinality(DOMAIN data') = Cardinality(DOMAIN data)]_vars
    /\ [][\A c \in Handlers :
            GetStep(c) => DOMAIN data' = DOMAIN data]_vars
    /\ [][Cardinality(DOMAIN data') >= Cardinality(DOMAIN data)]_vars

\* Size returns 2 while one of the two entries has expired
C15_Witness ==
    \E c \in Handlers :
        /\ call[c].op = "Size" /\ call[c].at = "returned" /\ call[c].n = 2
        /\ \E k \in DOMAIN data : ExpiredAt(data, k, now)

(***************************************************************************)
(* C16  MemoryUsage() returns the sum, over every entry held, expired ones *)
(* included, of the lengths of the key, the body, every header name and    *)
(* every header value: 0 for an empty cache, and an overwritten key counts *)
(* with its new value only.                                                *)
(***************************************************************************)
C16_MemoryUsageSum ==
    /\ [][\A c \in Handlers :
            TotalStep(c) => call'[c].total = ExpectedBytes(data)]_vars
    /\ [][\A c \in Handlers :
            (TotalStep(c) /\ data = EmptyData) => call'[c].total = 0]_vars

\* MemoryUsage returns 66 for one key with the 200 (4 + 9 + 12 + 16 bytes)
\* and the other with the 204 (4 + 0 + 15 + 3 + 3 bytes), one of them expired
C16_Witness ==
    \E c \in Handlers :
        /\ call[c].op = "MemoryUsage" /\ call[c].at = "returned"
        /\ CacheSize(data) = 2
        /\ call[c].total = 66
        /\ {data[k].status : k \in DOMAIN data} = {200, 204}
        /\ \E k \in DOMAIN data : ExpiredAt(data, k, now)

(***************************************************************************)
(* C17  With Set and Get called concurrently on the same keys, a Get that  *)
(* returns a value returns, whole, the value of the Set of that key that   *)
(* took the write lock last, and it does return it when that value has not *)
(* expired; and whenever no Set holds the lock, every key holds the value  *)
(* of the Set that took the lock last.                                     *)
(***************************************************************************)
C17_LastWriterWins ==
    /\ [][\A c \in Handlers :
            GetStep(c) =>
                /\ call'[c].ok =>
                      /\ call[c].key \in DOMAIN latest
                      /\ call'[c].v = latest[call[c].key]
                /\ Unexpired(latest, call[c].key, now) => call'[c].ok]_vars
    /\ [](mu.writer = 0 => data = latest)

\* a Get has read the value under key1 while a Set of another value for key1
\* waits for the lock, after both goroutines have Set key1
C17_Witness ==
    \E c, d \in Handlers :
        /\ call[c].op = "Get" /\ call[c].at = "unlock" /\ call[c].key = "key1"
        /\ call[c].ok /\ call[c].v.status = 204
        /\ call[d].op = "Set" /\ call[d].at = "lock" /\ call[d].key = "key1"
        /\ call[d].value.status = 200

(***************************************************************************)
(* C18  Reader/writer exclusion.  While a goroutine is inside Set, between *)
(* Lock and Unlock, no other goroutine is inside Get, Set, Size or         *)
(* MemoryUsage; a goroutine inside a method holds the lock the method      *)
(* takes; readers are not kept out by readers.                             *)
(***************************************************************************)
C18_Exclusion ==
    /\ \A c, d \in Handlers :
          (c # d /\ Inside(c) /\ call[c].op = "Set") => ~Inside(d)
    /\ \A c \in Handlers :
          Inside(c) => IF call[c].op = "Set" THEN mu.writer = c ELSE c \in mu.readers
    /\ \A c \in Handlers :
          (call[c].at = "lock" /\ call[c].op # "Set" /\ mu.writer = 0) => ENABLED RLock(c)

\* one goroutine is in the loop of MemoryUsage and the other has done the
\* lookup of Get, both holding the read lock
C18_Witness ==
    \E c, d \in Handlers :
        /\ call[c].op = "MemoryUsage" /\ call[c].at = "scan"
        /\ call[d].op = "Get" /\ call[d].at = "unlock"
        /\ mu.readers = {c, d}

(***************************************************************************)
(* C19  Size and MemoryUsage are linearizable with respect to concurrent   *)
(* Set: the number Size returns is the number of entries, and the total    *)
(* MemoryUsage returns is the byte sum, of the table in the state in which *)
(* the method computes its result, which lies between its call and its     *)
(* return; and the table does not change while MemoryUsage is in its loop. *)
(***************************************************************************)
C19_Linearizable ==
    /\ [][\A c \in Handlers :
            SizeStep(c) => call'[c].n = Cardinality(DOMAIN data')]_vars
    /\ [][\A c \in Handlers :
            TotalStep(c) => call'[c].total = ExpectedBytes(data')]_vars
    /\ [][(\E c \in Handlers : call[c].op = "MemoryUsage" /\ Inside(c)) =>
              data' = data]_vars

\* MemoryUsage has summed two entries while a Set waits for the lock
C19_Witness ==
    \E c, d \in Handlers :
        /\ call[c].op = "MemoryUsage" /\ call[c].at = "unlock"
        /\ CacheSize(data) = 2 /\ call[c].total = ExpectedBytes(data)
        /\ call[d].op = "Set" /\ call[d].at = "lock"
        /\ call[d].value # data[call[d].key]

(***************************************************************************)
(* C20  No handler holds the cache's lock while its upstream call is in    *)
(* flight: a handler holds the lock only inside Cache.Get and Cache.Set,   *)
(* which release it before they return, and while one handler waits for    *)
(* its upstream or reads the reply, a handler waiting for the lock can     *)
(* take it unless a third one is inside the cache.                         *)
(***************************************************************************)
\* handler p has its upstream call in flight: in Client.Do or in io.ReadAll
Upstream(p) == pc[p] \in {"send", "read"}

\* handler p holds the cache's lock
Holds(p) == mu.writer = p \/ p \in mu.readers

C20_NoLockAcrossUpstream ==
    /\ \A p \in Handlers : Upstream(p) => ~Holds(p)
    /\ \A p \in Handlers : Holds(p) => pc[p] \in {"get", "setting"} /\ Inside(p)
    /\ \A p, q \in Handlers :
          (/\ p # q /\ Upstream(p) /\ call[q].at = "lock"
           /\ \A o \in Handlers \ {p, q} : ~Inside(o)) =>
              ENABLED (RLock(q) \/ Lock(q))

\* one handler, which has saved an entry before, waits for its upstream
\* while the other is in the assignment of Set
C20_Witness ==
    \E p, q \in Handlers :
        /\ pc[p] = "send" /\ CacheKey(req[p]) \in DOMAIN data
        /\ pc[q] = "setting" /\ call[q].at = "store" /\ mu.writer = q

(***************************************************************************)
(* Vocabulary of the properties of the helper functions                    *)
(***************************************************************************)
\* a text in lower case
RECURSIVE Lower(_)
Lower(s) == IF s = "" THEN "" ELSE ToLower(CharAt(s, 1)) \o Lower(SubSeq(s, 2, Len(s)))

\* the request's value for a header name, whatever the case of the name: the
\* first of the values it carries, "" when it carries none
ValueFor(r, name) ==
    LET found == {n \in DOMAIN r.header : Lower(n) = Lower(name)}
    IN IF found = {} THEN ""
       ELSE LET values == r.header[CHOOSE n \in found : TRUE]
            IN IF values = <<>> THEN "" ELSE values[1]

\* the texts of a sequence, one after the other
RECURSIVE Concat(_)
Concat(texts) == IF texts = <<>> THEN "" ELSE Head(texts) \o Concat(Tail(texts))

\* the key as the claim spells it out
ExpectedKey(keyHeaders, r) ==
    r.method \o " " \o r.path \o "?" \o r.rawQuery \o
    Concat([i \in 1..Len(keyHeaders) |->
               IF ValueFor(r, keyHeaders[i]) # ""
               THEN "|" \o keyHeaders[i] \o ":" \o ValueFor(r, keyHeaders[i])
               ELSE ""])

\* the latest call was one of function f
Called(f) == fn.f = f

(***************************************************************************)
(* C21  cacheKey(request) is METHOD + " " + path + "?" + rawQuery, then    *)
(* for each configured header name in the order of the configuration       *)
(* "|" + the name as configured + ":" + the request's value, when the      *)
(* request has a non-empty (first) value under that name in whatever case; *)
(* nothing else contributes, and the same request on the same proxy gets   *)
(* the same key whenever it is keyed.                                      *)
(***************************************************************************)
C21_CacheKeyFormat ==
    /\ [](Called("cacheKey") => fn.result = ExpectedKey(fn.args[1], fn.args[2]))
    /\ [][(Called("cacheKey") /\ fn'.f = "cacheKey" /\ fn'.args = fn.args) =>
             fn'.result = fn.result]_vars

\* a request with both configured headers, keyed at a later time, the
\* configuration naming X-Custom-Header first
C21_Witness ==
    /\ Called("cacheKey") /\ fn.at > 1
    /\ fn.args[1] = <<"X-Custom-Header", "Authorization">>
    /\ fn.result = "GET /a?|X-Custom-Header:v|Authorization:t"

(***************************************************************************)
(* C22  Cache-key sensitivity: two cacheable requests keyed by the same    *)
(* proxy get the same key if and only if their method, path, raw query and *)
(* their values of the configured headers are the same.                    *)
(***************************************************************************)
\* requests r1 and r2 agree in every component the key is derived from
SameComponents(keyHeaders, r1, r2) ==
    /\ r1.method = r2.method
    /\ r1.path = r2.path
    /\ r1.rawQuery = r2.rawQuery
    /\ \A i \in 1..Len(keyHeaders) : ValueFor(r1, keyHeaders[i]) = ValueFor(r2, keyHeaders[i])

C22_Original ==
    [][(Called("cacheKey") /\ fn'.f = "cacheKey" /\ fn'.args[1] = fn.args[1]) =>
          (fn'.result = fn.result <=> SameComponents(fn.args[1], fn.args[2], fn'.args[2]))]_vars

\* the half that holds: requests that agree in every component get one key
C22_SameComponentsSameKey ==
    [][(Called("cacheKey") /\ fn'.f = "cacheKey" /\ fn'.args[1] = fn.args[1]) =>
          (SameComponents(fn.args[1], fn.args[2], fn'.args[2]) => fn'.result = fn.result)]_vars

(***************************************************************************)
(* C23  Each inbound request makes exactly one upstream attempt: the       *)
(* handler calls Client.Do at most once, exactly once for every answered   *)
(* request whose outbound request could be built, and only as the first    *)
(* thing after building it; once the attempt has failed (an error, or a    *)
(* status of 500 or more in reply to a cacheable request) it goes to the   *)
(* Store or answers 502 and sends nothing more.  A status of 500 or more   *)
(* in reply to a request that is not cacheable is passed on as it is.      *)
(***************************************************************************)
\* handler p calls Client.Do in this step
DoStep(p) == calls'[p].do > calls[p].do

\* the upstream attempt of p's request is over: built or not, sent, and read
AttemptOver(p) == pc[p] \notin {"idle", "send", "read"}

\* the attempt failed as line 118 has it: an error, or a status of 500 or
\* more in reply to a cacheable request
AttemptFailedCacheable(p) == err[p] # "" \/ ServerError(req[p], up[p].status)

\* where a handler stands after a failure: before tryServeFromCache, in
\* Cache.Get, or done
AfterFailure == {"fallback", "get", "done"}

\* at most one Client.Do, exactly one when the request was built, and none
\* after a failure
C23_OneDo ==
    /\ [](\A p \in Handlers :
            /\ calls[p].do <= 1
            /\ Answered(p) => calls[p].do = (IF out[p] = NoRequest THEN 0 ELSE 1))
    /\ [][\A p \in Handlers :
            DoStep(p) => (pc[p] = "send" /\ calls[p].do = 0 /\ ~AttemptFailed(p))]_vars

\* the claim as stated: after any failed attempt, the Store or a 502
C23_Original ==
    /\ C23_OneDo
    /\ [](\A p \in Handlers :
            (AttemptOver(p) /\ AttemptFailed(p)) =>
                /\ pc[p] \in AfterFailure
                /\ Answered(p) => (got[p].ok \/ resp[p].status = BadGateway))

C23_OneAttempt ==
    /\ C23_OneDo
    /\ [](\A p \in Handlers :
            (AttemptOver(p) /\ AttemptFailedCacheable(p)) =>
                /\ pc[p] \in AfterFailure
                /\ Answered(p) => (got[p].ok \/ resp[p].status = BadGateway))
    /\ [](\A p \in Handlers :
            (Answered(p) /\ AttemptFailed(p) /\ ~AttemptFailedCacheable(p)) =>
                (resp[p].status = up[p].status /\ resp[p].body = up[p].body))

\* the one attempt of a GET was refused, and with nothing in the Store the
\* answer is the 502
C23_Witness ==
    \E p \in Handlers :
        /\ Answered(p) /\ req[p].method = "GET" /\ err[p] = "connection refused"
        /\ calls[p].do = 1 /\ calls[p].get = 1 /\ ~got[p].ok
        /\ resp[p].status = BadGateway

(***************************************************************************)
(* C24  Every request handling terminates, in exactly one of the outcomes  *)
(* stored success, non-stored success, fallback hit, fallback miss and     *)
(* bypass, with one response to the client, which is the upstream's        *)
(* content, the cached content or a synthesized 502 and does not change    *)
(* once written, provided the handler runs on and Client.Do returns.       *)
(***************************************************************************)
\* the response has the status and body of the upstream's reply
FromUpstream(p) == resp[p].status = up[p].status /\ resp[p].body = up[p].body

\* the response has the status and body Cache.Get returned
FromCache(p) == resp[p].status = got[p].v.status /\ resp[p].body = got[p].v.body

\* the response is a 502 made by the proxy
Synthesized(p) == resp[p].status = BadGateway /\ Includes(resp[p].body, "Bad Gateway")

\* the outcomes of handler p's request
Outcomes(p) ==
    LET cacheable == Cacheable(req[p])
        sets == calls[p].set
        gets == calls[p].get
    IN [StoredSuccess |-> cacheable /\ sets = 1 /\ gets = 0 /\ FromUpstream(p),
        NonStoredSuccess |-> cacheable /\ sets = 0 /\ gets = 0 /\ FromUpstream(p),
        FallbackHit |-> cacheable /\ sets = 0 /\ gets = 1 /\ got[p].ok /\ FromCache(p),
        FallbackMiss |-> cacheable /\ sets = 0 /\ gets = 1 /\ ~got[p].ok /\ Synthesized(p),
        Bypass |-> ~cacheable /\ sets = 0 /\ gets = 0 /\
                   (IF err[p] = "" THEN FromUpstream(p) ELSE Synthesized(p))]

\* handler p has taken a request and not yet finished with it
InFlight(p) == pc[p] \notin {"idle", "done"}

C24_Terminates ==
    /\ \A p \in Handlers : InFlight(p) ~> (pc[p] = "done")
    /\ [](\A p \in Handlers :
            /\ pc[p] = "done" => resp[p].written
            /\ InFlight(p) => ~resp[p].written
            /\ Answered(p) =>
                   Cardinality({o \in DOMAIN Outcomes(p) : Outcomes(p)[o]}) = 1)
    /\ [][\A p \in Handlers :
            Answered(p) =>
                \/ resp'[p] = resp[p]
                \/ \E r \in Requests, e \in {""} \cup BuildErrors : Start(p, r, e)]_vars

\* the timeout fired for a request whose key has an entry in the Store that
\* has expired, and the request ended as a fallback miss
C24_Witness ==
    \E p \in Handlers :
        /\ Answered(p) /\ Outcomes(p).FallbackMiss
        /\ CacheKey(req[p]) \in DOMAIN data
        /\ err[p] = "context deadline exceeded"

(***************************************************************************)
(* C25  Hop-by-hop stripping: the headers of the outbound request are the  *)
(* inbound request's headers, with all their values, minus the hop-by-hop  *)
(* ones in whatever case they are spelled, and no hop-by-hop header is in  *)
(* a response to the client, in an entry being built or in a stored entry. *)
(***************************************************************************)
\* the hop-by-hop names in lower case
LowerHopByHopNames ==
    {"connection", "proxy-connection", "keep-alive", "proxy-authenticate",
     "proxy-authorization", "te", "trailer", "transfer-encoding", "upgrade"}

\* name n is a hop-by-hop one, whatever its case
HopByHop(n) == Lower(n) \in LowerHopByHopNames

\* header map h without the hop-by-hop headers
EndToEnd(h) == [n \in {k \in DOMAIN h : ~HopByHop(k)} |-> h[n]]

NoHopByHop(h) == \A n \in DOMAIN h : ~HopByHop(n)

C25_HopByHopStripped ==
    /\ \A p \in Handlers :
          /\ out[p] # NoRequest => out[p].header = EndToEnd(req[p].header)
          /\ NoHopByHop(resp[p].header)
          /\ NoHopByHop(entry[p].header)
    /\ \A k \in DOMAIN data : NoHopByHop(data[k].header)

\* a request with Connection and two values of Authorization was answered
\* with a reply that had a Connection header of its own, which was saved
C25_Witness ==
    \E p \in Handlers :
        /\ Answered(p) /\ calls[p].set = 1
        /\ "Connection" \in DOMAIN req[p].header /\ "Connection" \in DOMAIN up[p].header
        /\ out[p].header =
              [n \in {"Content-Type", "Authorization"} |->
                  IF n = "Content-Type" THEN <<"text/plain">> ELSE <<"t", "u">>]
        /\ CacheKey(req[p]) \in DOMAIN data

(***************************************************************************)
(* C26  SingleSlashJoin(a, b) follows the path join rule: when a is empty  *)
(* or "/" the result is b with a leading slash ensured; else when b is     *)
(* empty or "/" it is a with a leading slash ensured; otherwise it is a    *)
(* without its trailing slashes, "/", and b without its leading slashes.   *)
(***************************************************************************)
\* text s begins with a slash, ends with one
LeadingSlash(s) == Len(s) > 0 /\ SubSeq(s, 1, 1) = "/"
TrailingSlash(s) == Len(s) > 0 /\ SubSeq(s, Len(s), Len(s)) = "/"

\* text s is nothing but slashes
OnlySlashes(s) == \A i \in 1..Len(s) : SubSeq(s, i, i) = "/"

\* s without the slashes at its end: its longest start that ends in no
\* slash and is followed by slashes only
NoTrailingSlash(s) ==
    LET k == CHOOSE k \in 0..Len(s) :
                 /\ ~TrailingSlash(SubSeq(s, 1, k))
                 /\ OnlySlashes(SubSeq(s, k + 1, Len(s)))
    IN SubSeq(s, 1, k)

\* s without the slashes at its start
NoLeadingSlash(s) ==
    LET k == CHOOSE k \in 0..Len(s) :
                 /\ ~LeadingSlash(SubSeq(s, k + 1, Len(s)))
                 /\ OnlySlashes(SubSeq(s, 1, k))
    IN SubSeq(s, k + 1, Len(s))

\* s with a leading slash ensured
WithLeadingSlash(s) == IF LeadingSlash(s) THEN s ELSE "/" \o s

\* the path join rule
JoinRule(a, b) ==
    IF a \in {"", "/"} THEN WithLeadingSlash(b)
    ELSE IF b \in {"", "/"} THEN WithLeadingSlash(a)
    ELSE NoTrailingSlash(a) \o "/" \o NoLeadingSlash(b)

C26_JoinRule ==
    Called("SingleSlashJoin") => fn.result = JoinRule(fn.args[1], fn.args[2])

\* a base path that ends in a slash joined with a request path that begins
\* with one
C26_Witness ==
    /\ Called("SingleSlashJoin")
    /\ fn.args = <<"/api/", "/v1">>
    /\ fn.result = "/api/v1"

(***************************************************************************)
(* C27  The deadline of the outbound call is the minimum of the clock plus *)
(* the configured timeout, the clock read when the timeout is set, and the *)
(* deadline of the inbound request's context, if it has one: it is never   *)
(* after the caller's deadline and never more than the timeout away.       *)
(***************************************************************************)
\* the smaller of two times
Min(x, y) == IF x < y THEN x ELSE y

C27_DeadlineIsMinimum ==
    Called("RequestContextWithTimeout") =>
        LET parent == fn.args[1]
            d == fn.args[2]
            t2 == fn.args[4]
        IN /\ fn.result.ok
           /\ fn.result.deadline =
                 (IF parent.ok THEN Min(t2 + d, parent.deadline) ELSE t2 + d)
           /\ parent.ok => fn.result.deadline <= parent.deadline
           /\ fn.result.deadline <= t2 + d

\* the caller's deadline was further away than the timeout when the clock
\* was first read and nearer when the timeout was set: it stays
C27_Witness ==
    /\ Called("RequestContextWithTimeout")
    /\ fn.args[1].ok /\ fn.args[2] > 0
    /\ fn.args[1].deadline - fn.args[3] >= fn.args[2]
    /\ fn.args[1].deadline < fn.args[4] + fn.args[2]
    /\ fn.result = fn.args[1]

(***************************************************************************)
(* C28  An expired entry is never served as a backup: a failed cacheable   *)
(* request whose key has only an expired entry (the clock at or past its   *)
(* expireAt) is answered as if the key had no entry, with the 502 and no   *)
(* X-Cache: HIT-BACKUP, while the entry is still in the Store.             *)
(***************************************************************************)
\* the response of tryServeFromCache for handler p when the key has no entry
AsWithoutEntry(p) ==
    /\ resp'[p] = NoBackup(resp[p], cause[p])
    /\ resp'[p].status = BadGateway
    /\ Values(resp'[p], "X-Cache") # <<"HIT-BACKUP">>
    /\ data' = data

C28_Original ==
    [][\A p \in Handlers :
          (/\ FallbackStep(p)
           /\ CacheKey(req[p]) \in DOMAIN data
           /\ ~Unexpired(data, CacheKey(req[p]), now)) => AsWithoutEntry(p)]_vars

\* the part that holds: with the clock past expireAt
C28_PastExpiry ==
    [][\A p \in Handlers :
          (FallbackStep(p) /\ ExpiredAt(data, CacheKey(req[p]), now)) => AsWithoutEntry(p)]_vars

(***************************************************************************)
(* C29  In every reachable state every entry in the Store, and every entry *)
(* a handler is about to put there, has a status in 200..299, and so has   *)
(* every HIT-BACKUP response.                                              *)
(***************************************************************************)
\* handler p has answered from the Store
HitBackup(p) == Answered(p) /\ Values(resp[p], "X-Cache") = <<"HIT-BACKUP">>

C29_StoredIs2xx ==
    /\ \A k \in DOMAIN data : InRange2xx(data[k].status)
    /\ \A p \in Handlers :
          /\ pc[p] \in {"expiry", "set", "setting", "write"} => InRange2xx(entry[p].status)
          /\ HitBackup(p) => InRange2xx(resp[p].status)

\* a HEAD answered 500 by the upstream is served the 299 saved before
C29_Witness ==
    \E p \in Handlers :
        /\ HitBackup(p) /\ req[p].method = "HEAD"
        /\ up[p].status = 500 /\ resp[p].status = 299
        /\ data[CacheKey(req[p])].status = 299

(***************************************************************************)
(* C30  Single-slash join: for every base path and request path the target *)
(* path has exactly one slash where the two meet, never two and never      *)
(* none: it is the base path without the slashes at its end (a leading     *)
(* slash may be put before it), one slash, and the request path without    *)
(* the slashes at its start; where the request path is nothing but slashes *)
(* the one slash may be left out.                                          *)
(***************************************************************************)
\* the ways the base path a may stand at the start of the target path
BaseParts(a) ==
    LET base == NoTrailingSlash(a)
    IN IF base = "" THEN {""} ELSE {base, WithLeadingSlash(base)}

\* target joins a and b with one slash
JoinedByOneSlash(a, b, target) ==
    LET rest == NoLeadingSlash(b)
    IN \E base \in BaseParts(a) :
          \/ target = base \o "/" \o rest
          \/ rest = "" /\ base # "" /\ target = base

C30_Original ==
    Called("SingleSlashJoin") => JoinedByOneSlash(fn.args[1], fn.args[2], fn.result)

\* the third branch of the rule by itself does join by one slash
C30_BothPathsGiven ==
    (/\ Called("SingleSlashJoin")
     /\ fn.args[1] \notin {"", "/"}
     /\ fn.args[2] \notin {"", "/"}) =>
        JoinedByOneSlash(fn.args[1], fn.args[2], fn.result)

(***************************************************************************)
(* C31  The Store changes only in a request that ends with X-Cache: MISS:  *)
(* every change of the Store is a step of Cache.Set in some handler, a     *)
(* request whose handler has called Set ends with X-Cache: MISS, a request *)
(* that ends otherwise (PASS, HIT-BACKUP, 502) has called no Set, and the  *)
(* steps of the fallback path leave the Store as it is, an expired entry   *)
(* and the savedAt and expireAt of the entry served included.              *)
(***************************************************************************)
\* handler p takes a step of Cache.Set, as one step or inside the method
StoreStep(p) ==
    /\ pc[p] \in {"set", "setting"}
    /\ pc'[p] \in {"setting", "write"}
    /\ (pc'[p] # pc[p] \/ call'[p] # call[p])

\* handler p takes a step of tryServeFromCache, Cache.Get included
FallbackPathStep(p) ==
    /\ pc[p] \in {"fallback", "get"}
    /\ (pc'[p] # pc[p] \/ call'[p] # call[p])

\* handler p has answered with X-Cache: MISS
Miss(p) == Answered(p) /\ Values(resp[p], "X-Cache") = <<"MISS">>

C31_StoreChangesOnlyOnMiss ==
    /\ [][data' # data => \E p \in Handlers : StoreStep(p)]_vars
    /\ [][\A p \in Handlers : FallbackPathStep(p) => data' = data]_vars
    /\ [][\A p \in Handlers :
            (pc[p] \in {"setting", "write"} /\ pc'[p] \notin {"setting", "write"}) =>
                (pc[p] = "write" /\ Miss(p)')]_vars
    /\ [](\A p \in Handlers : (Answered(p) /\ ~Miss(p)) => calls[p].set = 0)

\* a HEAD was refused by the upstream and answered 502 while the expired
\* entry under its key is still in the Store, as it was saved
C31_Witness ==
    \E p \in Handlers :
        /\ Answered(p) /\ req[p].method = "HEAD" /\ err[p] = "connection refused"
        /\ calls[p].get = 1 /\ ~got[p].ok /\ resp[p].status = BadGateway
        /\ ExpiredAt(data, CacheKey(req[p]), now)
        /\ data[CacheKey(req[p])].savedAt < now

(***************************************************************************)
(* C32  A reply below 500 and outside 2xx never invalidates an earlier     *)
(* backup: no step of a request so answered changes the Store, an entry    *)
(* stays as it is until a Set under its own key, and a failed request      *)
(* whose key has an unexpired entry is answered HIT-BACKUP with that       *)
(* entry's 2xx status and body, whatever replies came in between.          *)
(***************************************************************************)
C32_NonSuccessKeepsBackup ==
    /\ [][\A p \in Handlers : (StepOf(p) /\ PassedOn(p)') => data' = data]_vars
    /\ [][\A k \in DOMAIN data :
            \/ k \in DOMAIN data' /\ data'[k] = data[k]
            \/ \E q \in Handlers :
                  StoreStep(q) /\ CacheKey(req[q]) = k /\ InRange2xx(up[q].status)]_vars
    /\ [][\A p \in Handlers :
            (FallbackStep(p) /\ Unexpired(data, CacheKey(req[p]), now)) =>
                /\ HitBackup(p)'
                /\ InRange2xx(resp'[p].status)
                /\ resp'[p].status = data[CacheKey(req[p])].status
                /\ resp'[p].body = data[CacheKey(req[p])].body]_vars

\* a GET has been answered the upstream's 404 some time after a 200 was
\* saved under its key, and the entry is in the Store, unexpired and as it
\* was saved
C32_Witness ==
    \E p \in Handlers :
        /\ Answered(p) /\ req[p].method = "GET" /\ PassedOn(p) /\ up[p].status = 404
        /\ resp[p].status = 404 /\ calls[p].set = 0
        /\ Unexpired(data, CacheKey(req[p]), now)
        /\ data[CacheKey(req[p])].status = 200
        /\ data[CacheKey(req[p])].body = "success"
        /\ data[CacheKey(req[p])].savedAt < now

(***************************************************************************)
(* C33  With TTL = 0 availability never regresses, under any interleaving  *)
(* of two handlers: when a handler writes a MISS response, and from then   *)
(* on, the Store holds an entry under the request's key; an entry is never *)
(* removed and never gets an expiry; a Cache.Get that reads the Store      *)
(* while it holds an entry under the key returns it; and a fallback whose  *)
(* Get returned an entry ends in HIT-BACKUP, not 502.  So a cacheable      *)
(* request with key k that starts after a client got a MISS response for k *)
(* and fails upstream reads the Store when k is there, and ends in         *)
(* HIT-BACKUP.                                                             *)
(***************************************************************************)
\* handler p takes the last step of tryServeFromCache, after Cache.Get
FallbackReturnStep(p) == pc[p] = "get" /\ pc'[p] = "done"

C33_AvailabilityKept ==
    /\ [](\A q \in Handlers :
            (pc[q] = "write" \/ Miss(q)) =>
                /\ CacheKey(req[q]) \in DOMAIN data
                /\ InRange2xx(data[CacheKey(req[q])].status))
    /\ [](\A k \in DOMAIN data : data[k].expireAt = 0)
    /\ [][\A k \in DOMAIN data : k \in DOMAIN data']_vars
    /\ [][\A p \in Handlers :
            (GetStep(p) /\ call[p].key \in DOMAIN data) =>
                call'[p].ok /\ call'[p].v = data[call[p].key]]_vars
    /\ [][\A p \in Handlers :
            (FallbackReturnStep(p) /\ call[p].ok) =>
                /\ call[p].key = CacheKey(req[p])
                /\ HitBackup(p)'
                /\ resp'[p].status = call[p].v.status
                /\ resp'[p].status # BadGateway]_vars

\* one handler has answered a GET with MISS; the other, whose GET for the
\* same key was refused after that entry was saved, has answered HIT-BACKUP
\* with it
C33_Witness ==
    \E p, q \in Handlers :
        /\ p # q /\ Miss(q) /\ req[q].method = "GET" /\ req[p] = req[q]
        /\ HitBackup(p) /\ err[p] = "connection refused"
        /\ got[p].v = data[CacheKey(req[p])]
        /\ got[p].v.savedAt = entry[q].savedAt
        /\ got[p].v.savedAt = now

(***************************************************************************)
(* C34  Fresh first: whenever the upstream answers with a status below 500 *)
(* and its body is read, the response has the upstream's own status and    *)
(* body and is no HIT-BACKUP; the handler calls Cache.Get only after the   *)
(* upstream attempt has failed; and a request calls Cache.Get and          *)
(* Cache.Set at most once together, never both.                            *)
(***************************************************************************)
\* the upstream has answered handler p below 500 and the body has been read
AnsweredBelow500(p) ==
    /\ AttemptOver(p) /\ err[p] = "" /\ up[p] # NoReply /\ up[p].status < 500

\* handler p is in the fallback or has called Cache.Get
OnFallback(p) == pc[p] \in {"fallback", "get"} \/ calls[p].get > 0

C34_FreshFirst ==
    \A p \in Handlers :
        /\ AnsweredBelow500(p) =>
              /\ ~OnFallback(p)
              /\ Answered(p) => (FromUpstream(p) /\ ~HitBackup(p))
        /\ OnFallback(p) => (Cacheable(req[p]) /\ AttemptFailedCacheable(p))
        /\ calls[p].get + calls[p].set <= 1
        /\ (pc[p] \in {"set", "setting"} => calls[p].get = 0)

\* a HEAD answered 404 gets the 404, while the Store holds a 299 under its
\* key, and the handler has called neither Get nor Set
C34_Witness ==
    \E p \in Handlers :
        /\ Answered(p) /\ req[p].method = "HEAD" /\ up[p].status = 404
        /\ resp[p].status = 404 /\ calls[p] = [do |-> 1, get |-> 0, set |-> 0]
        /\ CacheKey(req[p]) \in DOMAIN data
        /\ data[CacheKey(req[p])].status = 299

(***************************************************************************)
(* C35  A failure while reading the upstream's body is an upstream failure *)
(* whatever the status line was: a cacheable request goes to the Store and *)
(* is answered with the entry there or with the 502, a request that is not *)
(* cacheable is answered with the 502 and without the Store, and nothing   *)
(* of the reply is stored or sent: the handler calls no Set, none of its   *)
(* steps changes the Store, and the response is made of the stored entry   *)
(* or of the error alone.                                                  *)
(***************************************************************************)
\* reading the body of the reply to handler p failed
ReadFailed(p) == err[p] \in ReadErrors /\ up[p] # NoReply

C35_ReadFailure ==
    /\ [](\A p \in Handlers :
            ReadFailed(p) =>
                /\ pc[p] \in AfterFailure
                /\ calls[p].set = 0
                /\ Answered(p) =>
                     IF Cacheable(req[p])
                     THEN /\ calls[p].get = 1
                          /\ resp[p] = IF got[p].ok
                                        THEN ServeBackup(NoResponse, got[p].v)
                                        ELSE NoBackup(NoResponse, "read upstream body: " \o err[p])
                          /\ IF got[p].ok THEN HitBackup(p) /\ FromCache(p)
                             ELSE Synthesized(p)
                     ELSE /\ calls[p].get = 0
                          /\ resp[p] = HttpError(NoResponse, "Bad Gateway: " \o err[p], BadGateway)
                          /\ Synthesized(p))
    /\ [][\A p \in Handlers : (StepOf(p) /\ ReadFailed(p)') => data' = data]_vars

\* the body of a 200 to a GET broke off, and the answer is the 299 with
\* another body that the Store held
C35_Witness ==
    \E p \in Handlers :
        /\ Answered(p) /\ req[p].method = "GET" /\ ReadFailed(p)
        /\ up[p].status = 200 /\ up[p].body = "other"
        /\ HitBackup(p) /\ resp[p].status = 299 /\ resp[p].body = "success"
        /\ data[CacheKey(req[p])].body = "success"

(***************************************************************************)
(* C36  Provenance of backups: every HIT-BACKUP response to a request with *)
(* key k has the status and body of the value of the latest Set(k), which  *)
(* a handler serving a request with the same key k made from the status    *)
(* and body of the 2xx reply its upstream gave it; Cache.Get is called     *)
(* with the request's own key and returns the value under that key only,   *)
(* so that a response stored under one key is never served to a request    *)
(* with another.                                                           *)
(***************************************************************************)
\* handler q takes the write lock in Cache.Set
LockStep(q) == call[q].op = "Set" /\ call[q].at = "lock" /\ call'[q].at = "held"

C36_Provenance ==
    /\ [][\A q \in Handlers :
            LockStep(q) =>
                /\ call[q].key = CacheKey(req[q])
                /\ err[q] = "" /\ InRange2xx(up[q].status)
                /\ call[q].value.status = up[q].status
                /\ call[q].value.body = up[q].body
                /\ latest'[call[q].key] = call[q].value]_vars
    /\ [][\A p \in Handlers :
            GetStep(p) =>
                /\ call[p].key = CacheKey(req[p])
                /\ call'[p].ok =>
                      /\ call[p].key \in DOMAIN latest
                      /\ call'[p].v = latest[call[p].key]]_vars
    /\ [][\A p \in Handlers :
            FallbackReturnStep(p) =>
                /\ HitBackup(p)' <=> call[p].ok
                /\ call[p].ok =>
                      /\ resp'[p].status = call[p].v.status
                      /\ resp'[p].body = call[p].v.body]_vars
    /\ [](\A p \in Handlers :
            HitBackup(p) =>
                /\ got[p].ok /\ FromCache(p) /\ InRange2xx(resp[p].status)
                /\ resp[p].body = "" <=> req[p].method = "HEAD")

\* a failed GET is answered with the body saved for GET at the clock's
\* latest tick, while the Store holds under the key of HEAD an entry saved
\* before, without a body
C36_Witness ==
    \E p \in Handlers :
        /\ HitBackup(p) /\ req[p].method = "GET" /\ resp[p].body = "success"
        /\ got[p].v.savedAt = now /\ now > 1
        /\ \E r \in CacheableRequests :
              /\ r.method = "HEAD" /\ CacheKey(r) \in DOMAIN data
              /\ data[CacheKey(r)].body = ""
              /\ data[CacheKey(r)].savedAt < now

(***************************************************************************)
(* C37  Every method of the cache releases the lock on every return path,  *)
(* the miss and expired branches of Get included: a goroutine that is in   *)
(* no call holds no lock; while any call is under way some call can take a *)
(* step, whatever the interleaving of Get, Set, Size and MemoryUsage; and  *)
(* with the goroutines scheduled, every call returns.                      *)
(***************************************************************************)
\* goroutine c has a call of a cache method under way
InCall(c) == call[c].at \notin {"idle", "returned"}

C37_LockReleased ==
    /\ \A c \in Handlers : InCall(c) ~> (call[c].at = "returned")
    /\ [](\A c \in Handlers : ~InCall(c) => ~Holds(c))
    /\ []((\A c \in Handlers : ~InCall(c)) => mu = Unlocked)
    /\ []((\E c \in Handlers : InCall(c)) => ENABLED CacheStep(Handlers))

\* a Get has returned from its expired branch, the entry still in the table,
\* and the other goroutine has taken the write lock after it
C37_Witness ==
    \E c, d \in Handlers :
        /\ call[c].op = "Get" /\ call[c].at = "returned" /\ ~call[c].ok
        /\ ExpiredAt(data, call[c].key, now)
        /\ call[d].op = "Set" /\ call[d].at = "held" /\ mu.writer = d

====
